---- MODULE Spec2Model ----
(***************************************************************************)
(* Fleet command and firmware rollout orchestrator of the smart-solar      *)
(* backend: the OTA campaign engine (ota/views.py) and the device          *)
(* heartbeat (api/views.py), modelled as a state machine over the rows of  *)
(* the database.  The column sets follow the migrations (the model files   *)
(* lag behind them: is_rollback, pending_* and config_ack_ver are columns  *)
(* the views read and write).                                              *)
(***************************************************************************)
EXTENDS Integers, Sequences, FiniteSets, TLC

(* ------------------------------ universe ------------------------------ *)

\* Device rows (device_serial) known to the server.
Devices == {"d1", "d2", "d3"}

\* FirmwareVersion rows, and the version string of each (unique).
Firmwares == {"f1", "f2"}

Version(f) == IF f = "f1" THEN "v1" ELSE "v2"

\* FirmwareVersion.created_at order: f2 was uploaded after f1.
CreatedRank(f) == IF f = "f1" THEN 1 ELSE 2

\* firmware_version strings a device may report
ReportedVersions == {"v0", "v1", "v2"}

NoFirmware == "none"
NoCampaign == 0

\* settings.OTA_UPDATE_TIMEOUT_MINUTES (default)
OTA_UPDATE_TIMEOUT_MINUTES == 30

\* GatewayConfig rows (config_id), and ids a device may report or be assigned
ConfigIds == {"cfgA"}

NoConfig == ""

\* bounds of the model
MaxTicks == 1
MaxCampaigns == 1
MaxAttempts == 2
MaxVersion == 2

\* the model's clock advances by one timeout and a minute at a time
TickMinutes == OTA_UPDATE_TIMEOUT_MINUTES + 1

MaxTime == MaxTicks * TickMinutes

NoTime == -1

\* config_ack_ver IS NULL: no version acknowledged yet
NoAck == 0

(* ------------------------------- state -------------------------------- *)

VARIABLES
    now,        \* timezone.now(), in minutes
    fwActive,   \* FirmwareVersion rows with is_active
    campaigns,  \* TargetedUpdate rows, by id (1..Len)
    targets,    \* DeviceTargetedFirmware: one row per device at most
    logs,       \* DeviceUpdateLog rows, in creation order
    device,     \* Device rows: the one-shot flags and the configuration fields
    configs,    \* GatewayConfig.version by config_id
    resp,       \* what the request handled by the last step answered
    pc,         \* position of each in-flight request (interleaved specification)
    local       \* objects each in-flight request holds in memory

vars == <<now, fwActive, campaigns, targets, logs, device, configs, resp, pc, local>>

NoTarget == [present |-> FALSE, fw |-> NoFirmware, campaign |-> NoCampaign,
             is_active |-> FALSE, is_rollback |-> FALSE]

InFlight == {"checking", "available", "downloading"}

Procs == {"p1", "p2"}

NoLocal == [op |-> "none"]

NoResp == [op |-> "none"]

\* a provisioned Device row: the defaults of the columns
NewDevice ==
    [pending_reboot |-> FALSE, pending_hard_reset |-> FALSE, pending_rollback |-> FALSE,
     pending_config_update |-> FALSE, logs_enabled |-> FALSE,
     config_version |-> NoConfig, config_ack_ver |-> NoAck,
     last_heartbeat |-> NoTime, config_downloaded |-> FALSE, config_acked |-> FALSE]

Init ==
    /\ now = 0
    /\ fwActive = {}
    /\ campaigns = <<>>
    /\ targets = [d \in Devices |-> NoTarget]
    /\ logs = <<>>
    /\ device = [d \in Devices |-> NewDevice]
    /\ configs = [c \in ConfigIds |-> 1]
    /\ resp = NoResp
    /\ pc = [p \in Procs |-> "idle"]
    /\ local = [p \in Procs |-> NoLocal]

(* ------------------------------ helpers ------------------------------- *)

\* the rows of a sequence that pass a test, in order (QuerySet.delete keeps the rest)
RECURSIVE Keep(_, _)
Keep(seq, idx) ==
    IF seq = <<>> THEN <<>>
    ELSE LET n == Len(seq)
             rest == Keep(SubSeq(seq, 1, n - 1), idx)
         IN IF n \in idx THEN Append(rest, seq[n]) ELSE rest

\* order_by('-last_checked_at').first(): a row with the largest
\* last_checked_at; rows that tie come in an order the database chooses.
MostRecent(ls, idx) == {i \in idx : \A j \in idx : ls[j].last <= ls[i].last}

\* DeviceUpdateLog.objects.create(...): the defaults of the model.  completed
\* is "completed_at is set", last is last_checked_at, cur is current_firmware,
\* attempts is attempt_count.
NewLog(d, f, cur, st) ==
    [dev |-> d, fw |-> f, cur |-> cur, status |-> st, attempts |-> 0,
     completed |-> FALSE, last |-> now]

\* The table of logs is a multiset of rows: the sequence keeps the rows of
\* one device together, devices in the order of DeviceRank, so that the
\* order in which the rows were inserted is not part of the state.
DeviceRank(d) == CASE d = "d1" -> 1 [] d = "d2" -> 2 [] OTHER -> 3

InsertLog(ls, l) ==
    LET k == Cardinality({i \in 1..Len(ls) : DeviceRank(ls[i].dev) <= DeviceRank(l.dev)})
    IN SubSeq(ls, 1, k) \o <<l>> \o SubSeq(ls, k + 1, Len(ls))

\* DeviceTargetedFirmware.objects.filter(device=device, is_active=True).first()
ActiveTarget(tg, d) == tg[d].present /\ tg[d].is_active

\* a faulty variant: the filter on is_active is missing
LatestOfAll ==
    CHOOSE f \in Firmwares : \A g \in Firmwares : CreatedRank(g) <= CreatedRank(f)

\* FirmwareVersion.objects.filter(is_active=True).order_by('-created_at').first()
LatestActive ==
    IF fwActive = {} THEN NoFirmware
    ELSE CHOOSE f \in fwActive : \A g \in fwActive : CreatedRank(g) <= CreatedRank(f)

IsTerminal(st) == st \in {"completed", "failed", "cancelled"}

(* ------------------------ campaign bookkeeping ------------------------ *)

\* ota_check, device up to date: campaign.devices_updated += 1, completed
\* once devices_updated reaches devices_total; campaign.save()
CheckCountUpdated(c) ==
    LET n == c.devices_updated + 1
    IN IF n >= c.devices_total
       THEN [c EXCEPT !.devices_updated = n, !.status = "completed", !.completed_at = TRUE]
       ELSE [c EXCEPT !.devices_updated = n]

\* ota_status, status 'completed'
StatusCountUpdated(c) ==
    LET n == c.devices_updated + 1
    IN IF n >= c.devices_total
       THEN [c EXCEPT !.devices_updated = n, !.status = "completed", !.completed_at = TRUE]
       ELSE [c EXCEPT !.devices_updated = n]

\* ota_status, status 'failed'
StatusCountFailed(c) ==
    LET n == c.devices_failed + 1
        settled == c.devices_updated + n
    IN IF settled >= c.devices_total
       THEN [c EXCEPT !.devices_failed = n,
                      !.status = IF c.devices_updated < c.devices_total
                                 THEN "failed" ELSE "completed",
                      !.completed_at = TRUE]
       ELSE [c EXCEPT !.devices_failed = n]

(* --------------------------- the stale sweep -------------------------- *)

\* cutoff = timezone.now() - timedelta(minutes=timeout_minutes)
Cutoff == now - OTA_UPDATE_TIMEOUT_MINUTES

\* a faulty variant: the filter on the campaign's firmware is missing
StaleLogsAnyFirmware(ls, c) ==
    {i \in 1..Len(ls) : /\ ls[i].dev \in c.devices
                        /\ ls[i].status \in InFlight
                        /\ ls[i].last < now - OTA_UPDATE_TIMEOUT_MINUTES}

\* stale_qs: the in-flight logs of the campaign's devices and firmware that
\* were last checked before the cutoff
StaleLogs(ls, c) ==
    {i \in 1..Len(ls) : /\ ls[i].dev \in c.devices
                        /\ ls[i].fw = c.target_firmware
                        /\ ls[i].status \in InFlight
                        /\ ls[i].last < Cutoff}

\* a faulty variant: the update stamps completed_at but leaves the status
FailLogsKeepStatus(ls, idx) ==
    [i \in 1..Len(ls) |->
        IF i \in idx THEN [ls[i] EXCEPT !.completed = TRUE] ELSE ls[i]]

\* stale_qs.update(status=FAILED, error_message=..., completed_at=now)
FailLogs(ls, idx) ==
    [i \in 1..Len(ls) |->
        IF i \in idx
        THEN [ls[i] EXCEPT !.status = "failed", !.completed = TRUE]
        ELSE ls[i]]

\* DeviceTargetedFirmware ... filter(device_id__in=ids, targeted_update=campaign,
\* is_active=True).update(is_active=False)
DeactivateTargets(tg, ids, cid) ==
    [d \in Devices |->
        IF d \in ids /\ tg[d].present /\ tg[d].campaign = cid /\ tg[d].is_active
        THEN [tg[d] EXCEPT !.is_active = FALSE]
        ELSE tg[d]]

\* a faulty variant: a settled campaign is marked COMPLETED whatever failed
SweepSettleCompleted(c, count) ==
    LET c1 == [c EXCEPT !.devices_failed = @ + count]
    IN IF (c1.devices_updated + c1.devices_failed) >= c1.devices_total
       THEN [c1 EXCEPT !.status = "completed", !.completed_at = TRUE]
       ELSE c1

\* devices_failed = F('devices_failed') + stale_count, then the transition
\* to FAILED once every device has settled
SweepSettle(c, count) ==
    LET c1 == [c EXCEPT !.devices_failed = @ + count]
    IN IF (c1.devices_updated + c1.devices_failed) >= c1.devices_total
          /\ c1.devices_updated < c1.devices_total
       THEN [c1 EXCEPT !.status = "failed", !.completed_at = TRUE]
       ELSE c1

\* the writes of the sweep, from stale_qs.update() on: the queryset is
\* evaluated again by the update, stale_count and stale_device_ids are what
\* the sweep read before
SweepWrite(db, cid, count, ids) ==
    LET c == db.campaigns[cid]
    IN [campaigns |-> [db.campaigns EXCEPT ![cid] = SweepSettle(c, count)],
        targets |-> DeactivateTargets(db.targets, ids, cid),
        logs |-> FailLogs(db.logs, StaleLogs(db.logs, c)),
        count |-> count]

\* stale_device_ids
StaleDeviceIds(ls, c) == {ls[i].dev : i \in StaleLogs(ls, c)}

\* _auto_fail_stale_logs(campaign) on a database db = [campaigns, targets, logs]
AutoFailStaleLogs(db, cid) ==
    LET c == db.campaigns[cid]
        stale == StaleLogs(db.logs, c)
    IN IF stale = {}
       THEN [campaigns |-> db.campaigns, targets |-> db.targets, logs |-> db.logs,
             count |-> 0]
       ELSE SweepWrite(db, cid, Cardinality(stale), StaleDeviceIds(db.logs, c))

DB == [campaigns |-> campaigns, targets |-> targets, logs |-> logs]

\* what the OTA handlers never write
Untouched == resp' = NoResp /\ UNCHANGED <<fwActive, device, configs, pc, local>>

(* ------------------------------ actions ------------------------------- *)

\* commit the outcome r of an OTA handler
Commit(r) ==
    /\ campaigns' = r.campaigns
    /\ targets' = r.targets
    /\ logs' = r.logs
    /\ UNCHANGED now
    /\ Untouched

\* commit the outcome r of a trigger_* handler and answer the administrator:
\* the status code, the campaign and the serials reported as missing_devices
CommitAnswer(r, op, missing) ==
    /\ campaigns' = r.campaigns
    /\ targets' = r.targets
    /\ logs' = r.logs
    /\ resp' = [op |-> op, code |-> r.code, campaign |-> r.campaign, missing |-> missing]
    /\ UNCHANGED <<now, fwActive, device, configs, pc, local>>

\* time passes
Tick ==
    /\ now + TickMinutes <= MaxTime
    /\ now' = now + TickMinutes
    /\ resp' = NoResp
    /\ UNCHANGED <<fwActive, campaigns, targets, logs, device, configs, pc, local>>

\* get_targeted_update(update_id): the sweep runs on every read of an
\* in-progress campaign
GetTargetedUpdateResult(db, cid) ==
    IF db.campaigns[cid].status = "in_progress"
    THEN AutoFailStaleLogs(db, cid)
    ELSE [campaigns |-> db.campaigns, targets |-> db.targets, logs |-> db.logs,
          count |-> 0]

GetTargetedUpdate(cid) ==
    /\ cid \in 1..Len(campaigns)
    /\ Commit(GetTargetedUpdateResult(DB, cid))

\* TargetedUpdate.objects.create(...), status PENDING; devices is
\* target_devices, completed_at is "completed_at is set"
NewCampaign(f, devs) ==
    [target_firmware |-> f, devices |-> devs, status |-> "pending",
     devices_total |-> Cardinality(devs),
     devices_updated |-> 0, devices_failed |-> 0, completed_at |-> FALSE]

\* a faulty variant: a device that has a target row keeps it (get_or_create)
RetargetAllKeepExisting(tg, devs, f, cid) ==
    [d \in Devices |->
        IF d \in devs /\ ~tg[d].present
        THEN [present |-> TRUE, fw |-> f, campaign |-> cid, is_active |-> TRUE,
              is_rollback |-> FALSE]
        ELSE tg[d]]

\* DeviceTargetedFirmware.objects.update_or_create(device=device, defaults=...)
RetargetAll(tg, devs, f, cid) ==
    [d \in Devices |->
        IF d \in devs
        THEN [present |-> TRUE, fw |-> f, campaign |-> cid, is_active |-> TRUE,
              is_rollback |-> FALSE]
        ELSE tg[d]]

\* existing_log.current_firmware of the device's latest log, else 'unknown';
\* cur is a choice for every device that has a log (ties of last_checked_at)
SeedChoices(ls, devs) ==
    {cur \in [devs -> ReportedVersions \cup {"unknown"}] :
        \A d \in devs :
            LET mine == {i \in 1..Len(ls) : ls[i].dev = d}
            IN IF mine = {} THEN cur[d] = "unknown"
               ELSE \E i \in MostRecent(ls, mine) : cur[d] = ls[i].cur}

\* a faulty variant: the logs the device already has for the firmware stay
RECURSIVE SeedLogsKeepOld(_, _, _, _)
SeedLogsKeepOld(ls, devs, f, cur) ==
    IF devs = {} THEN ls
    ELSE LET d == CHOOSE x \in devs : TRUE
         IN SeedLogsKeepOld(InsertLog(ls, NewLog(d, f, cur[d], "pending")), devs \ {d}, f, cur)

\* ...filter(device=device, firmware_version=firmware).delete(), then a fresh
\* PENDING log, for every device of the campaign in turn
RECURSIVE SeedLogs(_, _, _, _)
SeedLogs(ls, devs, f, cur) ==
    IF devs = {} THEN ls
    ELSE LET d == CHOOSE x \in devs : TRUE
             kept == Keep(ls, {i \in 1..Len(ls) : ~(ls[i].dev = d /\ ls[i].fw = f)})
         IN SeedLogs(InsertLog(kept, NewLog(d, f, cur[d], "pending")), devs \ {d}, f, cur)

\* what the three trigger_* handlers do once the devices are resolved
CreateCampaignResult(db, f, devs, cur) ==
    LET cid == Len(db.campaigns) + 1
    IN [campaigns |-> Append(db.campaigns,
                             [NewCampaign(f, devs) EXCEPT !.status = "in_progress"]),
        targets |-> RetargetAll(db.targets, devs, f, cid),
        logs |-> SeedLogs(db.logs, devs, f, cur),
        code |-> 201, campaign |-> cid]

\* a request that is rejected writes nothing
RejectedResult(db, code) ==
    [campaigns |-> db.campaigns, targets |-> db.targets, logs |-> db.logs,
     code |-> code, campaign |-> NoCampaign]

\* trigger_single_device_update(device_serial, firmware_id)
TriggerSingleDeviceUpdate(serial, f, maxc) ==
    IF serial \notin Devices \/ f \notin Firmwares
    THEN CommitAnswer(RejectedResult(DB, 404), "trigger_single", {})
    ELSE /\ Len(campaigns) < maxc
         /\ \E cur \in SeedChoices(logs, {serial}) :
               CommitAnswer(CreateCampaignResult(DB, f, {serial}, cur), "trigger_single", {})

\* a faulty variant: one serial that does not resolve fails the whole request
TriggerMultiAllOrNothing(serials, f, maxc) ==
    LET found == serials \cap Devices
        missing_serials == serials \ found
    IN IF f \notin Firmwares
       THEN CommitAnswer(RejectedResult(DB, 404), "trigger_multi", {})
       ELSE IF missing_serials # {}
       THEN CommitAnswer(RejectedResult(DB, 404), "trigger_multi", missing_serials)
       ELSE /\ Len(campaigns) < maxc
            /\ \E cur \in SeedChoices(logs, found) :
                  CommitAnswer(CreateCampaignResult(DB, f, found, cur),
                               "trigger_multi", missing_serials)

\* trigger_multi_device_update(device_serials, firmware_id): found are the
\* serials that resolve, the others are reported as missing_devices
TriggerMultiDeviceUpdate(serials, f, maxc) ==
    LET found == serials \cap Devices
        missing_serials == serials \ found
    IN IF f \notin Firmwares
       THEN CommitAnswer(RejectedResult(DB, 404), "trigger_multi", {})
       ELSE IF found = {}
       THEN CommitAnswer(RejectedResult(DB, 404), "trigger_multi", missing_serials)
       ELSE /\ Len(campaigns) < maxc
            /\ \E cur \in SeedChoices(logs, found) :
                  CommitAnswer(CreateCampaignResult(DB, f, found, cur),
                               "trigger_multi", missing_serials)

\* Device.objects.filter(update_logs__current_firmware=source_version).distinct()
DevicesOnVersion(ls, src) == {ls[i].dev : i \in {j \in 1..Len(ls) : ls[j].cur = src}}

\* trigger_version_based_update(source_version, firmware_id)
TriggerVersionBasedUpdate(src, f, maxc) ==
    LET devs == DevicesOnVersion(logs, src)
    IN IF f \notin Firmwares \/ devs = {}
       THEN CommitAnswer(RejectedResult(DB, 404), "trigger_version_based", {})
       ELSE /\ Len(campaigns) < maxc
            /\ CommitAnswer(CreateCampaignResult(DB, f, devs, [d \in devs |-> src]),
                            "trigger_version_based", {})

\* a faulty variant: the campaign is marked cancelled, its targets stay
CancelResultKeepTargets(db, cid) ==
    IF db.campaigns[cid].status \in {"completed", "cancelled"}
    THEN RejectedResult(db, 400)
    ELSE [campaigns |-> [db.campaigns EXCEPT ![cid].status = "cancelled"],
          targets |-> db.targets,
          logs |-> db.logs, code |-> 200, campaign |-> cid]

\* a faulty variant: a campaign that is completed or cancelled is cancelled again
CancelResultAnyStatus(db, cid) ==
    [campaigns |-> [db.campaigns EXCEPT ![cid].status = "cancelled"],
     targets |-> [d \in Devices |->
                     IF db.targets[d].present /\ db.targets[d].campaign = cid
                     THEN NoTarget ELSE db.targets[d]],
     logs |-> db.logs, code |-> 200, campaign |-> cid]

\* cancel_targeted_update(update_id)
CancelResult(db, cid) ==
    IF db.campaigns[cid].status \in {"completed", "cancelled"}
    THEN RejectedResult(db, 400)
    ELSE [campaigns |-> [db.campaigns EXCEPT ![cid].status = "cancelled"],
          targets |-> [d \in Devices |->
                          IF db.targets[d].present /\ db.targets[d].campaign = cid
                          THEN NoTarget ELSE db.targets[d]],
          logs |-> db.logs, code |-> 200, campaign |-> cid]

\* TargetedUpdate.DoesNotExist is answered 404
CancelTargetedUpdate(cid) ==
    IF cid \in 1..Len(campaigns)
    THEN CommitAnswer(CancelResult(DB, cid), "cancel", {})
    ELSE CommitAnswer(RejectedResult(DB, 404), "cancel", {})

\* the answer of ota_check
CheckResp(d, st, version) ==
    [op |-> "ota_check", dev |-> d, code |-> 200, status |-> st, version |-> version]

\* the log an OTA check works on: the latest log for the targeted firmware
\* (or, without a target, the latest log of the device); 0 when there is none
CheckLogChoices(ls, tg, d) ==
    LET mine == IF ActiveTarget(tg, d)
                THEN {i \in 1..Len(ls) : ls[i].dev = d /\ ls[i].fw = tg[d].fw}
                ELSE {i \in 1..Len(ls) : ls[i].dev = d}
    IN IF mine = {} THEN {0} ELSE MostRecent(ls, mine)

\* a faulty variant: a FAILED log is treated like any other log
AutoFailedNever(log) == FALSE

\* the log was failed, by the sweep or by the device's report
AutoFailed(log) == log.status = "failed"

\* ota_check(device_id) with firmware_version = cur, on a database db and
\* the log li chosen by CheckLogChoices
OtaCheckResult(db, d, cur, li) ==
    LET targeted == ActiveTarget(db.targets, d)
        tfw == IF targeted THEN db.targets[d].fw ELSE NoFirmware
        new == NewLog(d, tfw, cur, "checking")
        logs1 == IF li = 0 THEN InsertLog(db.logs, new) ELSE db.logs
        i == IF li = 0
             THEN Cardinality({k \in 1..Len(db.logs) :
                                 DeviceRank(db.logs[k].dev) <= DeviceRank(d)}) + 1
             ELSE li
        log1 == [logs1[i] EXCEPT !.last = now, !.cur = cur, !.attempts = @ + 1]
        latest == IF targeted THEN tfw ELSE LatestActive
    IN IF AutoFailed(logs1[i])
       THEN [campaigns |-> db.campaigns, targets |-> db.targets, logs |-> logs1,
             resp |-> CheckResp(d, 0, cur)]
       ELSE IF latest = NoFirmware
       THEN [campaigns |-> db.campaigns, targets |-> db.targets,
             logs |-> [logs1 EXCEPT ![i] = [log1 EXCEPT !.status = "skipped"]],
             resp |-> CheckResp(d, 0, cur)]
       ELSE IF cur = Version(latest)
       THEN LET cid == db.targets[d].campaign
            IN [campaigns |-> IF targeted /\ cid # NoCampaign
                              THEN [db.campaigns EXCEPT ![cid] = CheckCountUpdated(@)]
                              ELSE db.campaigns,
                targets |-> IF targeted
                            THEN [db.targets EXCEPT ![d].is_active = FALSE]
                            ELSE db.targets,
                logs |-> [logs1 EXCEPT ![i] = [log1 EXCEPT !.status = "completed"]],
                resp |-> CheckResp(d, 0, Version(latest))]
       ELSE [campaigns |-> db.campaigns, targets |-> db.targets,
             logs |-> [logs1 EXCEPT ![i] =
                          [log1 EXCEPT !.fw = latest, !.status = "available"]],
             resp |-> CheckResp(d, 1, Version(latest))]

OtaCheck(d, cur) ==
    \E li \in CheckLogChoices(logs, targets, d) :
        /\ li # 0 => (logs[li].status = "failed" \/ logs[li].attempts < MaxAttempts)
        /\ Commit(OtaCheckResult(DB, d, cur, li))

\* ota_download(firmware_id)?device=serial: every log of (firmware, device)
\* becomes DOWNLOADING
OtaDownload(f, d) ==
    /\ logs' = [i \in 1..Len(logs) |->
                  IF logs[i].fw = f /\ logs[i].dev = d
                  THEN [logs[i] EXCEPT !.status = "downloading"]
                  ELSE logs[i]]
    /\ UNCHANGED <<now, campaigns, targets>>
    /\ Untouched

\* a faulty variant: a seeded PENDING log counts as in flight
StatusLogChoicesWithPending(ls, d) ==
    LET mine == {i \in 1..Len(ls) :
                    ls[i].dev = d /\ ls[i].status \in InFlight \cup {"pending"}}
    IN IF mine = {} THEN {0} ELSE MostRecent(ls, mine)

\* the log an OTA result report settles: the device's latest in-flight log
StatusLogChoices(ls, d) ==
    LET mine == {i \in 1..Len(ls) : ls[i].dev = d /\ ls[i].status \in InFlight}
    IN IF mine = {} THEN {0} ELSE MostRecent(ls, mine)

\* campaign.save(update_fields=[counter, 'status', 'completed_at']) of the
\* campaign object camp the handler counted on, over the stored row
SaveCounters(row, camp, st) ==
    IF st = "completed"
    THEN [row EXCEPT !.devices_updated = camp.devices_updated,
                     !.status = camp.status, !.completed_at = camp.completed_at]
    ELSE [row EXCEPT !.devices_failed = camp.devices_failed,
                     !.status = camp.status, !.completed_at = camp.completed_at]

\* what ota_status reads before it writes: the device's active target and,
\* with it (select_related), the campaign row
StatusRead(db, d) ==
    LET targeted == ActiveTarget(db.targets, d)
        cid == IF targeted THEN db.targets[d].campaign ELSE NoCampaign
    IN [targeted |-> targeted, cid |-> cid,
        camp |-> IF cid # NoCampaign THEN db.campaigns[cid] ELSE NoLocal]

\* the writes of ota_status for the log li and what it read (rd)
StatusWrite(db, d, st, ver, li, rd) ==
    LET log1 == [db.logs[li] EXCEPT !.last = now, !.completed = TRUE]
        log2 == IF st = "completed"
                THEN [log1 EXCEPT !.status = "completed", !.cur = ver]
                ELSE [log1 EXCEPT !.status = "failed"]
        counted == IF st = "completed" THEN StatusCountUpdated(rd.camp)
                   ELSE StatusCountFailed(rd.camp)
        \* device_target.save(update_fields=['is_active']) raises when the
        \* row was deleted since it was read, and the campaign is not saved
        kept == rd.targeted /\ db.targets[d].present
    IN [campaigns |-> IF kept /\ rd.cid # NoCampaign
                      THEN [db.campaigns EXCEPT ![rd.cid] = SaveCounters(@, counted, st)]
                      ELSE db.campaigns,
        targets |-> IF kept
                    THEN [db.targets EXCEPT ![d].is_active = FALSE]
                    ELSE db.targets,
        logs |-> [db.logs EXCEPT ![li] = log2],
        resp |-> [op |-> "ota_status", dev |-> d, code |-> 200, recorded |-> TRUE]]

\* str.lower() on the status strings a report may carry
Lower(s) ==
    CASE s = "COMPLETED" -> "completed"
      [] s = "Failed" -> "failed"
      [] OTHER -> s

\* a faulty variant: a report with any other status is taken as a failure
OtaStatusResultNoValidation(db, d, st, ver, li) ==
    IF li = 0
    THEN [campaigns |-> db.campaigns, targets |-> db.targets, logs |-> db.logs,
          resp |-> [op |-> "ota_status", dev |-> d, code |-> 200, recorded |-> FALSE]]
    ELSE StatusWrite(db, d, Lower(st), ver, li, StatusRead(db, d))

\* ota_status(device_id) with status = st, firmware_version = ver
OtaStatusResult(db, d, st, ver, li) ==
    IF Lower(st) \notin {"completed", "failed"}
    THEN [campaigns |-> db.campaigns, targets |-> db.targets, logs |-> db.logs,
          resp |-> [op |-> "ota_status", dev |-> d, code |-> 400, recorded |-> FALSE]]
    ELSE IF li = 0
    THEN [campaigns |-> db.campaigns, targets |-> db.targets, logs |-> db.logs,
          resp |-> [op |-> "ota_status", dev |-> d, code |-> 200, recorded |-> FALSE]]
    ELSE StatusWrite(db, d, Lower(st), ver, li, StatusRead(db, d))

OtaStatus(d, st, ver) ==
    \E li \in StatusLogChoices(logs, d) :
        Commit(OtaStatusResult(DB, d, st, ver, li))

\* PATCH update_firmware_version(firmware_id) {is_active}
UpdateFirmwareVersion(f, active) ==
    /\ fwActive' = IF active THEN fwActive \cup {f} ELSE fwActive \ {f}
    /\ resp' = NoResp
    /\ UNCHANGED <<now, campaigns, targets, logs, device, configs, pc, local>>

ReportStatuses == {"completed", "failed"}

\* a device that has a directive or a history polls the OTA check
OtaCheckKnown(d, cur) ==
    /\ ActiveTarget(targets, d) \/ \E i \in 1..Len(logs) : logs[i].dev = d
    /\ OtaCheck(d, cur)

\* the requests of administrators and of the devices devs, over the
\* firmware rows fws and the reported versions vers, for at most maxc campaigns
Requests(devs, fws, vers, maxc) ==
    \/ Tick
    \/ \E d \in devs, f \in fws : TriggerSingleDeviceUpdate(d, f, maxc)
    \/ \E ds \in SUBSET devs, f \in fws : ds # {} /\ TriggerMultiDeviceUpdate(ds, f, maxc)
    \/ \E v \in vers, f \in fws : TriggerVersionBasedUpdate(v, f, maxc)
    \/ \E c \in 1..maxc : GetTargetedUpdate(c)
    \/ \E c \in 1..maxc : CancelTargetedUpdate(c)
    \/ \E d \in devs, v \in vers : OtaCheckKnown(d, v)
    \/ \E d \in devs, f \in fws : OtaDownload(f, d)
    \/ \E d \in devs, st \in ReportStatuses, v \in vers : OtaStatus(d, st, v)
    \/ \E f \in fws, a \in BOOLEAN : UpdateFirmwareVersion(f, a)

Next == Requests({"d1", "d2"}, {"f1"}, {"v0", "v1"}, MaxCampaigns)

Spec == Init /\ [][Next]_vars

\* C1: devices_updated + devices_failed <= devices_total for every campaign
CountersWithinTotal ==
    \A c \in 1..Len(campaigns) :
        campaigns[c].devices_updated + campaigns[c].devices_failed
            <= campaigns[c].devices_total

Settled(c) == c.devices_updated + c.devices_failed = c.devices_total

\* C2: a campaign whose devices have all settled is COMPLETED when none
\* failed and FAILED when any failed, with completed_at set; it is never
\* left IN_PROGRESS (a later cancellation aside)
SettledCampaignIsTerminal ==
    \A c \in 1..Len(campaigns) :
        (Settled(campaigns[c]) /\ campaigns[c].status # "cancelled") =>
            /\ campaigns[c].status =
                  IF campaigns[c].devices_failed = 0 THEN "completed" ELSE "failed"
            /\ campaigns[c].completed_at

(* ------------------- the three-device rollout scenario ----------------- *)

AllDevices == {"d1", "d2", "d3"}

\* the scenario has one campaign, for the three devices; the devices check
\* and report, time passes and the campaign is read
NextScenario ==
    \/ Tick
    \/ TriggerMultiDeviceUpdate(AllDevices, "f1", 1)
    \/ \E d \in AllDevices, v \in {"v0", "v1"} : OtaCheckKnown(d, v)
    \/ \E d \in AllDevices : OtaStatus(d, "completed", "v1")
    \/ GetTargetedUpdate(1)

SpecScenario == Init /\ [][NextScenario]_vars

\* device d is the one silent device of campaign cid: the other two devices
\* have reported success, d polled the OTA check and then fell silent for
\* longer than the timeout
SilentThird(cid, d) ==
    LET c == campaigns[cid]
    IN /\ c.status = "in_progress"
       /\ c.devices_total = 3 /\ c.devices_updated = 2 /\ c.devices_failed = 0
       /\ d \in c.devices
       /\ ActiveTarget(targets, d) /\ targets[d].campaign = cid
       /\ \A e \in c.devices \ {d} : ~ActiveTarget(targets, e)
       /\ \E i \in StaleLogs(logs, c) : logs[i].dev = d

NextSweep ==
    \/ Tick
    \/ TriggerMultiDeviceUpdate({"d1", "d2"}, "f1", MaxCampaigns)
    \/ \E c \in 1..MaxCampaigns : GetTargetedUpdate(c)
    \/ \E d \in {"d1", "d2"} : OtaCheckKnown(d, "v0")
    \/ \E d \in {"d1", "d2"}, st \in ReportStatuses : OtaStatus(d, st, "v1")
    \/ \E d \in {"d1", "d2"} : OtaDownload("f1", d)

SpecSweep == Init /\ [][NextSweep]_vars

\* C5: a second sweep of a campaign right after a first one fails no log
\* and leaves devices_failed, the campaign, the logs and the targets as the
\* first sweep left them, both when the second sweep is the status read
\* (r3) and when it is the sweep function itself (r2) after a first
\* sweep that ran, as the code runs it, on an IN_PROGRESS campaign
SweepIdempotent ==
    \A cid \in 1..Len(campaigns) :
        LET r1 == GetTargetedUpdateResult(DB, cid)
            r2 == AutoFailStaleLogs(r1, cid)
            r3 == GetTargetedUpdateResult(r1, cid)
        IN /\ r3.count = 0
           /\ r3.campaigns = r1.campaigns
           /\ r3.logs = r1.logs
           /\ r3.targets = r1.targets
           /\ campaigns[cid].status = "in_progress" =>
                 /\ r2.count = 0
                 /\ r2.campaigns = r1.campaigns
                 /\ r2.logs = r1.logs
                 /\ r2.targets = r1.targets

\* a first sweep that has something to fail
SweepHasStaleLogs ==
    \E cid \in 1..Len(campaigns) :
        /\ campaigns[cid].status = "in_progress"
        /\ GetTargetedUpdateResult(DB, cid).count >= 1

(* ----------------------------- self-healing ---------------------------- *)

\* the devices poll only while the clock of the model can still run past
\* the timeout afterwards
CanGoStale == now + TickMinutes <= MaxTime

RequestsLive(devs, fws, vers, maxc) ==
    \/ Tick
    \/ \E ds \in SUBSET devs, f \in fws : ds # {} /\ TriggerMultiDeviceUpdate(ds, f, maxc)
    \/ \E c \in 1..maxc : GetTargetedUpdate(c)
    \/ \E d \in devs, v \in vers : CanGoStale /\ OtaCheckKnown(d, v)
    \/ \E d \in devs, st \in ReportStatuses, v \in vers : CanGoStale /\ OtaStatus(d, st, v)

NextLive == RequestsLive({"d1", "d2"}, {"f1"}, {"v0", "v1"}, MaxCampaigns)

\* time keeps advancing and every campaign keeps being read
SpecLive ==
    /\ Init /\ [][NextLive]_vars
    /\ WF_vars(Tick)
    /\ \A c \in 1..MaxCampaigns : WF_vars(GetTargetedUpdate(c))

\* C4: every IN_PROGRESS campaign eventually reaches a terminal status
EventuallyTerminal ==
    \A c \in 1..MaxCampaigns :
        (c <= Len(campaigns) /\ campaigns[c].status = "in_progress")
            ~> (c <= Len(campaigns) /\ IsTerminal(campaigns[c].status))

(* ------------------------------ heartbeat ------------------------------ *)

\* a faulty variant: the version safety net is left out
UpdateConfigNeededNoSafetyNet(dev, cfgs, current_config_id) ==
    IF dev.config_version # NoConfig
    THEN IF current_config_id # dev.config_version THEN 1
         ELSE IF dev.pending_config_update THEN 1
         ELSE 0
    ELSE IF current_config_id # NoConfig THEN 1 ELSE 0

\* a faulty variant: a device without assignment is never asked to refresh
UpdateConfigNeededNoDeassign(dev, cfgs, current_config_id) ==
    IF dev.config_version # NoConfig
    THEN IF current_config_id # dev.config_version THEN 1
         ELSE IF dev.pending_config_update THEN 1
         ELSE IF dev.config_version \in DOMAIN cfgs
                 /\ (dev.config_ack_ver = NoAck
                     \/ cfgs[dev.config_version] # dev.config_ack_ver)
              THEN 1
              ELSE 0
    ELSE 0

\* updateConfig: the three layers of the configuration check
UpdateConfigNeeded(dev, cfgs, current_config_id) ==
    IF dev.config_version # NoConfig
    THEN IF current_config_id # dev.config_version THEN 1
         ELSE IF dev.pending_config_update THEN 1
         ELSE IF dev.config_version \in DOMAIN cfgs
                 /\ (dev.config_ack_ver = NoAck
                     \/ cfgs[dev.config_version] # dev.config_ack_ver)
              THEN 1
              ELSE 0
    ELSE IF current_config_id # NoConfig THEN 1 ELSE 0

\* a faulty variant: the targeted update is looked at before the rollback flag
UpdateFirmwareNeededTargetFirst(dev, tg) ==
    IF tg.present /\ tg.is_active /\ ~tg.is_rollback THEN 1
    ELSE IF dev.pending_rollback THEN 2
    ELSE 0

\* a faulty variant: a target that was deactivated still signals the update
UpdateFirmwareNeededAnyTarget(dev, tg) ==
    IF dev.pending_rollback THEN 2
    ELSE IF tg.present /\ ~tg.is_rollback THEN 1
    ELSE 0

\* updateFirmware: the rollback flag first, then the active targeted update
UpdateFirmwareNeeded(dev, tg) ==
    IF dev.pending_rollback THEN 2
    ELSE IF tg.present /\ tg.is_active /\ ~tg.is_rollback THEN 1
    ELSE 0

\* the heartbeat exchange of device d: the configId of the request and the
\* response_data computed from the Device object dev the handler loaded
HeartbeatResponse(d, dev, tg, cfgs, current_config_id) ==
    [op |-> "heartbeat", dev |-> d, configId |-> current_config_id,
     updateConfig |-> UpdateConfigNeeded(dev, cfgs, current_config_id),
     reboot |-> IF dev.pending_reboot THEN 1 ELSE 0,
     hardReset |-> IF dev.pending_hard_reset THEN 1 ELSE 0,
     updateFirmware |-> UpdateFirmwareNeeded(dev, tg),
     sendLogs |-> IF dev.logs_enabled THEN 1 ELSE 0]

\* a faulty variant: the heartbeat itself lowers pending_config_update
StampHeartbeatClearsPending(row) ==
    [row EXCEPT !.last_heartbeat = now, !.pending_config_update = FALSE]

\* device.last_heartbeat = timezone.now(); save(update_fields=['last_heartbeat'])
StampHeartbeat(row) == [row EXCEPT !.last_heartbeat = now]

\* a faulty variant: the reboot flag is left set after it was surfaced
ClearSurfacedKeepReboot(row, dev) ==
    [row EXCEPT !.pending_hard_reset = IF dev.pending_hard_reset THEN FALSE ELSE @,
                !.pending_rollback = IF dev.pending_rollback THEN FALSE ELSE @]

\* the three save(update_fields=[flag]) of the flags the loaded object dev
\* had set, applied to the stored row
ClearSurfaced(row, dev) ==
    [row EXCEPT !.pending_reboot = IF dev.pending_reboot THEN FALSE ELSE @,
                !.pending_hard_reset = IF dev.pending_hard_reset THEN FALSE ELSE @,
                !.pending_rollback = IF dev.pending_rollback THEN FALSE ELSE @]

\* what the device and configuration handlers never write
OtaUntouched == UNCHANGED <<now, fwActive, campaigns, targets, logs, pc, local>>

\* heartbeat(device_id) with configId = current_config_id, as one request
Heartbeat(d, current_config_id) ==
    LET dev == StampHeartbeat(device[d])
    IN /\ device' = [device EXCEPT ![d] = ClearSurfaced(dev, dev)]
       /\ resp' = HeartbeatResponse(d, dev, targets[d], configs, current_config_id)
       /\ UNCHANGED configs
       /\ OtaUntouched

\* an administrative request that rewrites the Device row of d
AdminWrite(d, row, op) ==
    /\ device' = [device EXCEPT ![d] = row]
    /\ resp' = [op |-> op, dev |-> d]
    /\ UNCHANGED configs
    /\ OtaUntouched

RebootDevice(d) == AdminWrite(d, [device[d] EXCEPT !.pending_reboot = TRUE], "reboot_device")

HardResetDevice(d) ==
    AdminWrite(d, [device[d] EXCEPT !.pending_hard_reset = TRUE], "hard_reset_device")

RollbackDevice(d) ==
    AdminWrite(d, [device[d] EXCEPT !.pending_rollback = TRUE], "rollback_device")

\* ota.trigger_rollback {device_serial}
TriggerRollback(d) ==
    AdminWrite(d, [device[d] EXCEPT !.pending_rollback = TRUE], "trigger_rollback")

ToggleDeviceLogs(d) ==
    AdminWrite(d, [device[d] EXCEPT !.logs_enabled = ~@], "toggle_device_logs")

\* update_device with config_version = c: a changed assignment raises the flag
UpdateDevice(d, c) ==
    AdminWrite(d, [device[d] EXCEPT !.config_version = c,
                                    !.pending_config_update =
                                        IF device[d].config_version # c THEN TRUE ELSE @],
               "update_device")

\* Device.objects.filter(config_version=c).update(pending_config_update=True)
FlagDevices(devs, c) ==
    [d \in Devices |->
        IF devs[d].config_version = c
        THEN [devs[d] EXCEPT !.pending_config_update = TRUE]
        ELSE devs[d]]

\* update_preset(preset_id): the devices on the preset are flagged
UpdatePreset(c) ==
    /\ c \in DOMAIN configs
    /\ device' = FlagDevices(device, c)
    /\ resp' = [op |-> "update_preset", config |-> c]
    /\ UNCHANGED configs
    /\ OtaUntouched

\* GatewayConfig.objects.filter(pk=config.pk).update(version=F('version') + 1):
\* the database adds 1 to the stored version, whatever version (seen) the
\* object had that the handler loaded
BumpVersion(cfgs, c, seen) == [cfgs EXCEPT ![c] = @ + 1]

\* a slave of the configuration is added, edited, removed, attached or
\* detached: the version is bumped and the devices on it are flagged
EditSlaves(c) ==
    /\ c \in DOMAIN configs
    /\ configs[c] < MaxVersion
    /\ configs' = BumpVersion(configs, c, configs[c])
    /\ device' = FlagDevices(device, c)
    /\ resp' = [op |-> "edit_slaves", config |-> c]
    /\ OtaUntouched

\* delete_preset(preset_id): the row goes, the devices keep its config_id
DeletePreset(c) ==
    /\ c \in DOMAIN configs
    /\ configs' = [x \in DOMAIN configs \ {c} |-> configs[x]]
    /\ resp' = [op |-> "delete_preset", config |-> c]
    /\ UNCHANGED device
    /\ OtaUntouched

\* gateway_config(device_id): the download of the assigned configuration
GatewayConfig(d) ==
    /\ IF device[d].config_version = NoConfig
       THEN /\ resp' = [op |-> "gateway_config", dev |-> d, code |-> 403]
            /\ UNCHANGED device
       ELSE IF device[d].config_version \notin DOMAIN configs
       THEN /\ resp' = [op |-> "gateway_config", dev |-> d, code |-> 404]
            /\ UNCHANGED device
       ELSE /\ resp' = [op |-> "gateway_config", dev |-> d, code |-> 200]
            /\ device' = [device EXCEPT ![d].pending_config_update = FALSE,
                                        ![d].config_downloaded = TRUE]
    /\ UNCHANGED configs
    /\ OtaUntouched

\* a faulty variant: the acknowledgment records the version and leaves the
\* flag as it is
ConfigAckKeepsFlag(d, ver) ==
    AdminWrite(d, [device[d] EXCEPT !.config_ack_ver = ver,
                                    !.config_acked = TRUE],
               "config_ack")

\* config_ack(device_id) {status: 1, cfgVer: ver}
ConfigAck(d, ver) ==
    AdminWrite(d, [device[d] EXCEPT !.config_ack_ver = ver,
                                    !.pending_config_update = FALSE,
                                    !.config_acked = TRUE],
               "config_ack")

\* the administrators' and one device's requests around the heartbeat
NextHB ==
    \/ \E d \in {"d1"}, c \in ConfigIds \cup {NoConfig} : Heartbeat(d, c)
    \/ \E d \in {"d1"} : RebootDevice(d)
    \/ \E d \in {"d1"} : HardResetDevice(d)
    \/ \E d \in {"d1"} : RollbackDevice(d)
    \/ \E d \in {"d1"} : TriggerRollback(d)
    \/ \E d \in {"d1"} : ToggleDeviceLogs(d)
    \/ \E d \in {"d1"}, c \in ConfigIds \cup {NoConfig} : UpdateDevice(d, c)
    \/ \E c \in ConfigIds : UpdatePreset(c)
    \/ \E c \in ConfigIds : EditSlaves(c)
    \/ \E d \in {"d1"} : GatewayConfig(d)
    \/ \E d \in {"d1"}, v \in 1..MaxVersion : ConfigAck(d, v)
    \/ \E d \in {"d1"} : TriggerSingleDeviceUpdate(d, "f1", MaxCampaigns)
    \/ \E c \in 1..MaxCampaigns : CancelTargetedUpdate(c)

SpecHB == Init /\ [][NextHB]_vars

\* C8: a heartbeat returns reboot, hardReset and the rollback signal exactly
\* for the flags that are set and leaves the three flags cleared; a flag is
\* raised only by its administrative request and lowered only by the
\* device's heartbeat, so the first heartbeat after the request returns the
\* command and the later ones return 0 until the flag is set again
FlagSurfacedOnce ==
    [][\A d \in Devices :
        /\ (resp'.op = "heartbeat" /\ resp'.dev = d) =>
              /\ resp'.reboot = (IF device[d].pending_reboot THEN 1 ELSE 0)
              /\ resp'.hardReset = (IF device[d].pending_hard_reset THEN 1 ELSE 0)
              /\ (resp'.updateFirmware = 2) = device[d].pending_rollback
              /\ ~device'[d].pending_reboot
              /\ ~device'[d].pending_hard_reset
              /\ ~device'[d].pending_rollback
        /\ (~device[d].pending_reboot /\ device'[d].pending_reboot)
              => (resp'.op = "reboot_device" /\ resp'.dev = d)
        /\ (~device[d].pending_hard_reset /\ device'[d].pending_hard_reset)
              => (resp'.op = "hard_reset_device" /\ resp'.dev = d)
        /\ (~device[d].pending_rollback /\ device'[d].pending_rollback)
              => (resp'.op \in {"rollback_device", "trigger_rollback"} /\ resp'.dev = d)
        /\ (\/ device[d].pending_reboot /\ ~device'[d].pending_reboot
            \/ device[d].pending_hard_reset /\ ~device'[d].pending_hard_reset
            \/ device[d].pending_rollback /\ ~device'[d].pending_rollback)
              => (resp'.op = "heartbeat" /\ resp'.dev = d)
    ]_vars

\* a heartbeat has just returned the three commands and cleared their flags
CommandsSurfaced ==
    /\ resp.op = "heartbeat"
    /\ resp.reboot = 1 /\ resp.hardReset = 1 /\ resp.updateFirmware = 2
    /\ ~device[resp.dev].pending_reboot
    /\ ~device[resp.dev].pending_hard_reset
    /\ ~device[resp.dev].pending_rollback

\* C10: the firmware signal of a heartbeat is one of 0, 1 and 2; it is 2
\* whenever pending_rollback is set, active target or not, and otherwise 1
\* exactly when the device has an active target that is not a rollback
OneFirmwareSignal ==
    [][\A d \in Devices :
        (resp'.op = "heartbeat" /\ resp'.dev = d) =>
            /\ resp'.updateFirmware \in {0, 1, 2}
            /\ device[d].pending_rollback => resp'.updateFirmware = 2
            /\ ~device[d].pending_rollback =>
                  resp'.updateFirmware =
                      (IF ActiveTarget(targets, d) /\ ~targets[d].is_rollback
                       THEN 1 ELSE 0)
    ]_vars

\* a heartbeat has answered 2 to a device that has an active forward target
RollbackOverTarget ==
    /\ resp.op = "heartbeat"
    /\ resp.updateFirmware = 2
    /\ ActiveTarget(targets, resp.dev)
    /\ ~targets[resp.dev].is_rollback

(* ------------------------- overlapping requests ------------------------ *)

\* no request is between its reads and its writes
AllIdle == \A p \in Procs : pc[p] = "idle"

\* worker p starts or ends a request: its position and what it holds in memory
Hold(p, at, mem) ==
    /\ pc' = [pc EXCEPT ![p] = at]
    /\ local' = [local EXCEPT ![p] = mem]

\* get_targeted_update on worker p, up to stale_device_ids: the campaign is
\* in progress and the sweep has counted its stale logs
SweepBegin(p, cid) ==
    /\ pc[p] = "idle"
    /\ cid \in 1..Len(campaigns)
    /\ campaigns[cid].status = "in_progress"
    /\ StaleLogs(logs, campaigns[cid]) # {}
    /\ Hold(p, "sweep", [op |-> "sweep", cid |-> cid,
                         count |-> Cardinality(StaleLogs(logs, campaigns[cid])),
                         ids |-> StaleDeviceIds(logs, campaigns[cid])])
    /\ resp' = NoResp
    /\ UNCHANGED <<now, fwActive, campaigns, targets, logs, device, configs>>

\* the rest of the sweep on worker p, from stale_qs.update() on
SweepFinish(p) ==
    /\ pc[p] = "sweep"
    /\ LET r == SweepWrite(DB, local[p].cid, local[p].count, local[p].ids)
       IN /\ campaigns' = r.campaigns
          /\ targets' = r.targets
          /\ logs' = r.logs
    /\ Hold(p, "idle", NoLocal)
    /\ resp' = NoResp
    /\ UNCHANGED <<now, fwActive, device, configs>>

\* ota_status on worker p, up to the read of the device target
StatusBegin(p, d, st, ver) ==
    /\ pc[p] = "idle"
    /\ \E li \in StatusLogChoices(logs, d) :
          /\ li # 0
          /\ Hold(p, "status", [op |-> "status", dev |-> d, st |-> st, ver |-> ver,
                                li |-> li, rd |-> StatusRead(DB, d)])
    /\ resp' = NoResp
    /\ UNCHANGED <<now, fwActive, campaigns, targets, logs, device, configs>>

\* the rest of ota_status on worker p: the three saves
StatusFinish(p) ==
    /\ pc[p] = "status"
    /\ LET l == local[p]
           r == StatusWrite(DB, l.dev, l.st, l.ver, l.li, l.rd)
       IN /\ campaigns' = r.campaigns
          /\ targets' = r.targets
          /\ logs' = r.logs
    /\ Hold(p, "idle", NoLocal)
    /\ resp' = NoResp
    /\ UNCHANGED <<now, fwActive, device, configs>>

\* two workers serve the sweeps and the result reports of one campaign; a
\* request takes less than a tick of the clock, and the requests that add
\* log rows run between the others
NextConc ==
    \/ AllIdle /\ Tick
    \/ AllIdle /\ TriggerMultiDeviceUpdate({"d1", "d2"}, "f1", MaxCampaigns)
    \/ \E d \in {"d1", "d2"} : AllIdle /\ OtaCheckKnown(d, "v0")
    \/ \E p \in Procs, c \in 1..MaxCampaigns : SweepBegin(p, c)
    \/ \E p \in Procs : SweepFinish(p)
    \/ \E p \in Procs, d \in {"d1", "d2"}, st \in ReportStatuses : StatusBegin(p, d, st, "v1")
    \/ \E p \in Procs : StatusFinish(p)

SpecConc == Init /\ [][NextConc]_vars

\* C6: a sweep raises devices_failed by the number of logs it has failed,
\* so that two overlapping sweeps count every stale log once
SweepCountsOnce ==
    [][\A p \in Procs :
        (pc[p] = "sweep" /\ pc'[p] = "idle") =>
            LET cid == local[p].cid
            IN campaigns'[cid].devices_failed - campaigns[cid].devices_failed
                 = Cardinality({i \in 1..Len(logs) :
                                   logs[i].status \in InFlight /\ logs'[i].status = "failed"})
    ]_vars

\* C7: the result report of a targeted device whose log is still in flight
\* and whose target is still active when the report is written raises the
\* campaign counter by one over the stored value, whatever the report of
\* another device wrote in between
ReportIsCounted ==
    [][\A p \in Procs :
        (pc[p] = "status" /\ pc'[p] = "idle"
            /\ local[p].rd.targeted /\ local[p].rd.cid # NoCampaign
            /\ logs[local[p].li].status \in InFlight
            /\ ActiveTarget(targets, local[p].dev)) =>
            LET cid == local[p].rd.cid
            IN IF local[p].st = "completed"
               THEN campaigns'[cid].devices_updated = campaigns[cid].devices_updated + 1
               ELSE campaigns'[cid].devices_failed = campaigns[cid].devices_failed + 1
    ]_vars

\* heartbeat on worker p, up to the save of last_heartbeat: the Device
\* object is loaded
HbBegin(p, d, current_config_id) ==
    /\ pc[p] = "idle"
    /\ device' = [device EXCEPT ![d] = StampHeartbeat(@)]
    /\ Hold(p, "heartbeat", [op |-> "heartbeat", dev |-> d,
                             loaded |-> StampHeartbeat(device[d]),
                             configId |-> current_config_id])
    /\ resp' = NoResp
    /\ UNCHANGED <<now, fwActive, campaigns, targets, logs, configs>>

\* the rest of the heartbeat on worker p: the commands are read off the
\* loaded object and the surfaced flags are saved as cleared
HbFinish(p) ==
    /\ pc[p] = "heartbeat"
    /\ LET l == local[p]
       IN /\ device' = [device EXCEPT ![l.dev] = ClearSurfaced(@, l.loaded)]
          /\ resp' = HeartbeatResponse(l.dev, l.loaded, targets[l.dev], configs, l.configId)
    /\ Hold(p, "idle", NoLocal)
    /\ UNCHANGED <<now, fwActive, campaigns, targets, logs, configs>>

\* two workers serve the heartbeats of one device
NextHBConc ==
    \/ \E p \in Procs, c \in ConfigIds \cup {NoConfig} : HbBegin(p, "d1", c)
    \/ \E p \in Procs : HbFinish(p)
    \/ RebootDevice("d1")
    \/ HardResetDevice("d1")
    \/ RollbackDevice("d1")
    \/ \E c \in ConfigIds : UpdateDevice("d1", c)
    \/ TriggerSingleDeviceUpdate("d1", "f1", MaxCampaigns)

SpecHBConc == Init /\ [][NextHBConc]_vars

\* C9: a heartbeat surfaces a command only if the stored flag is still set
\* when it clears it, so that of two overlapping heartbeats one at most
\* surfaces a command that was set once
SurfacedOnlyWhenSet ==
    [][\A d \in Devices :
        (resp'.op = "heartbeat" /\ resp'.dev = d) =>
            /\ resp'.reboot = 1 => device[d].pending_reboot
            /\ resp'.hardReset = 1 => device[d].pending_hard_reset
            /\ resp'.updateFirmware = 2 => device[d].pending_rollback
    ]_vars

(* ------------------- the firmware signal of a heartbeat ---------------- *)

\* one device is targeted, checks, reports, is swept or has its campaign
\* cancelled, while firmware is activated and deactivated, a rollback is
\* requested and the device sends heartbeats
NextSignal ==
    \/ Tick
    \/ TriggerSingleDeviceUpdate("d1", "f1", MaxCampaigns)
    \/ \E c \in 1..MaxCampaigns : CancelTargetedUpdate(c)
    \/ \E c \in 1..MaxCampaigns : GetTargetedUpdate(c)
    \/ \E v \in {"v0", "v1"} : OtaCheckKnown("d1", v)
    \/ \E st \in ReportStatuses : OtaStatus("d1", st, "v1")
    \/ \E a \in BOOLEAN : UpdateFirmwareVersion("f1", a)
    \/ RollbackDevice("d1")
    \/ Heartbeat("d1", NoConfig)

SpecSignal == Init /\ [][NextSignal]_vars

\* C11: a heartbeat returns update-available (1) only to a device that has
\* an active target that is not a rollback target; a device without an
\* active target never gets it, whatever firmware is globally active
UpdateSignalNeedsActiveTarget ==
    [][\A d \in Devices :
        (resp'.op = "heartbeat" /\ resp'.dev = d /\ resp'.updateFirmware = 1)
            => (targets[d].present /\ targets[d].is_active /\ ~targets[d].is_rollback)
    ]_vars

\* a heartbeat has answered 0 to a device whose target was deactivated,
\* while a firmware is globally active
NoSignalWithoutTarget ==
    /\ resp.op = "heartbeat"
    /\ resp.updateFirmware = 0
    /\ fwActive # {}
    /\ targets[resp.dev].present /\ ~targets[resp.dev].is_active

(* --------------------- configuration drift detection ------------------- *)

\* one device and the administrators around its configuration: assignment,
\* preset and slave edits, preset deletion, download, acknowledgment, heartbeat
NextConfig ==
    \/ \E c \in ConfigIds \cup {NoConfig} : Heartbeat("d1", c)
    \/ \E c \in ConfigIds \cup {NoConfig} : UpdateDevice("d1", c)
    \/ \E c \in ConfigIds : UpdatePreset(c)
    \/ \E c \in ConfigIds : EditSlaves(c)
    \/ \E c \in ConfigIds : DeletePreset(c)
    \/ GatewayConfig("d1")
    \/ \E v \in 1..MaxVersion : ConfigAck("d1", v)

SpecConfig == Init /\ [][NextConfig]_vars

\* the stored row of d says: assigned configuration c exists, the flag is
\* down and the acknowledged version is not the configuration's version
Drifted(d, c) ==
    /\ device[d].config_version = c
    /\ c \in DOMAIN configs
    /\ ~device[d].pending_config_update
    /\ device[d].config_ack_ver # configs[c]

VersionDiffers(d) ==
    /\ device[d].config_version \in DOMAIN configs
    /\ configs[device[d].config_version] # device[d].config_ack_ver

DownloadedThenNoRefresh ==
    [][\A d \in Devices, c \in ConfigIds :
        (/\ resp.op = "gateway_config" /\ resp.dev = d /\ resp.code = 200
         /\ device[d].config_version = c
         /\ Heartbeat(d, c)) => resp'.updateConfig = 0
    ]_vars

\* C15: a heartbeat leaves pending_config_update, config_ack_ver,
\* config_downloaded_at and config_acked_at as they are; the flag is lowered
\* and the download fields written only by the download call, the
\* acknowledgment fields only by the acknowledgment call; so a heartbeat
\* that follows a heartbeat answered 1 and reports the same id is answered 1
HeartbeatKeepsConfigState ==
    [][\A d \in Devices :
        /\ (resp'.op = "heartbeat" /\ resp'.dev = d) =>
              /\ device'[d].pending_config_update = device[d].pending_config_update
              /\ device'[d].config_ack_ver = device[d].config_ack_ver
              /\ device'[d].config_downloaded = device[d].config_downloaded
              /\ device'[d].config_acked = device[d].config_acked
        /\ (device[d].pending_config_update /\ ~device'[d].pending_config_update)
              => (resp'.op \in {"gateway_config", "config_ack"} /\ resp'.dev = d)
        /\ device'[d].config_downloaded # device[d].config_downloaded
              => (resp'.op = "gateway_config" /\ resp'.dev = d)
        /\ (\/ device'[d].config_ack_ver # device[d].config_ack_ver
            \/ device'[d].config_acked # device[d].config_acked)
              => (resp'.op = "config_ack" /\ resp'.dev = d)
        /\ (/\ resp.op = "heartbeat" /\ resp.dev = d /\ resp.updateConfig = 1
            /\ Heartbeat(d, resp.configId)) => resp'.updateConfig = 1
    ]_vars

\* a heartbeat reporting the assigned id was answered 1 because of the flag,
\* and the flag is still up afterwards
FlagStillUpAfterHeartbeat ==
    /\ resp.op = "heartbeat"
    /\ resp.configId # NoConfig
    /\ resp.configId = device[resp.dev].config_version
    /\ resp.updateConfig = 1
    /\ device[resp.dev].pending_config_update
    /\ device[resp.dev].last_heartbeat # NoTime

(* ------------------- overlapping configuration edits ------------------- *)

\* the edits of configuration c that loaded it and have not bumped it yet
EditsInFlight(c) ==
    Cardinality({p \in Procs : pc[p] = "edit_slaves" /\ local[p].config = c})

\* a slave edit on worker p, up to the version bump: the configuration is
\* loaded and the slave rows are written
SlaveEditBegin(p, c) ==
    /\ pc[p] = "idle"
    /\ c \in DOMAIN configs
    /\ configs[c] + EditsInFlight(c) < MaxVersion + 1
    /\ Hold(p, "edit_slaves", [op |-> "edit_slaves", config |-> c, version |-> configs[c]])
    /\ resp' = NoResp
    /\ UNCHANGED <<now, fwActive, campaigns, targets, logs, device, configs>>

\* the rest of the slave edit on worker p: the bump and the flags
SlaveEditFinish(p) ==
    /\ pc[p] = "edit_slaves"
    /\ LET l == local[p]
       IN /\ configs' = BumpVersion(configs, l.config, l.version)
          /\ device' = FlagDevices(device, l.config)
          /\ resp' = [op |-> "edit_slaves", config |-> l.config]
    /\ Hold(p, "idle", NoLocal)
    /\ UNCHANGED <<now, fwActive, campaigns, targets, logs>>

\* update_preset on worker p, up to config.save(): the row is loaded
PresetBegin(p, c) ==
    /\ pc[p] = "idle"
    /\ c \in DOMAIN configs
    /\ Hold(p, "update_preset", [op |-> "update_preset", config |-> c, version |-> configs[c]])
    /\ resp' = NoResp
    /\ UNCHANGED <<now, fwActive, campaigns, targets, logs, device, configs>>

\* the rest of update_preset on worker p: config.save() writes every column
\* of the loaded object, its version included, and the devices are flagged
PresetFinish(p) ==
    /\ pc[p] = "update_preset"
    /\ LET l == local[p]
       IN /\ configs' = [configs EXCEPT ![l.config] = l.version]
          /\ device' = FlagDevices(device, l.config)
          /\ resp' = [op |-> "update_preset", config |-> l.config]
    /\ Hold(p, "idle", NoLocal)
    /\ UNCHANGED <<now, fwActive, campaigns, targets, logs>>

\* two workers serve the administrators' edits of one configuration while
\* a device on it downloads and acknowledges
NextPresetConc ==
    \/ \E p \in Procs, c \in ConfigIds : SlaveEditBegin(p, c)
    \/ \E p \in Procs : SlaveEditFinish(p)
    \/ \E p \in Procs, c \in ConfigIds : PresetBegin(p, c)
    \/ \E p \in Procs : PresetFinish(p)
    \/ \E c \in ConfigIds : UpdateDevice("d1", c)
    \/ GatewayConfig("d1")
    \/ \E v \in 1..MaxVersion : ConfigAck("d1", v)

SpecPresetConc == Init /\ [][NextPresetConc]_vars

\* C16: no step lowers the version of a configuration, and the step that
\* completes a slave edit raises it by exactly 1, also when the edits of
\* two workers overlap
VersionNeverDecreases ==
    [][\A c \in ConfigIds :
        /\ configs'[c] >= configs[c]
        /\ (resp'.op = "edit_slaves" /\ resp'.config = c)
              => configs'[c] = configs[c] + 1
    ]_vars

(* --------------------------- campaign creation -------------------------- *)

\* the serials and firmware ids an administrator may send: the known ones
\* and one of each that resolves to nothing
RequestSerials == {"d1", "d2", "d9"}

RequestFirmwares == Firmwares \cup {"f9"}

\* the administrators create a first campaign and one that may retarget its
\* devices, in the three modes, while a device checks for updates
NextCampaigns ==
    \/ Tick
    \/ \E s \in RequestSerials, f \in RequestFirmwares :
          TriggerSingleDeviceUpdate(s, f, 2)
    \/ \E ss \in SUBSET RequestSerials \ {{}}, f \in RequestFirmwares :
          TriggerMultiDeviceUpdate(ss, f, 2)
    \/ \E v \in ReportedVersions \cup {"unknown"}, f \in RequestFirmwares :
          TriggerVersionBasedUpdate(v, f, 2)
    \/ \E v \in {"v0", "v1"} : OtaCheckKnown("d1", v)

SpecCampaigns == Init /\ [][NextCampaigns]_vars

\* the step answered 201: a campaign was created
Created(r) ==
    /\ r.op \in {"trigger_single", "trigger_multi", "trigger_version_based"}
    /\ r.code = 201

\* C17: a device has one target row at most, and the creation of a campaign
\* for a device, targeted before or not, leaves that row active, not a
\* rollback, and bound to the new campaign and its firmware; an active
\* target always belongs to a campaign that lists the device and has the
\* target's firmware
OneActiveTargetPerDevice ==
    [][\A d \in Devices :
        /\ ActiveTarget(targets', d) =>
              /\ targets'[d].campaign \in 1..Len(campaigns')
              /\ d \in campaigns'[targets'[d].campaign].devices
              /\ targets'[d].fw = campaigns'[targets'[d].campaign].target_firmware
        /\ (Created(resp') /\ d \in campaigns'[resp'.campaign].devices) =>
              targets'[d] = [present |-> TRUE,
                             fw |-> campaigns'[resp'.campaign].target_firmware,
                             campaign |-> resp'.campaign,
                             is_active |-> TRUE, is_rollback |-> FALSE]
    ]_vars

\* a device of campaign 1, still in progress with the device's update in
\* flight, has just been retargeted by campaign 2 to another firmware
Retargeted ==
    /\ Created(resp)
    /\ resp.campaign = 2
    /\ campaigns[1].status = "in_progress"
    /\ campaigns[1].target_firmware # campaigns[2].target_firmware
    /\ \E d \in campaigns[1].devices \cap campaigns[2].devices :
          /\ targets[d].campaign = 2
          /\ \E i \in 1..Len(logs) :
                /\ logs[i].dev = d
                /\ logs[i].fw = campaigns[1].target_firmware
                /\ logs[i].status \in InFlight

\* the logs of device d for firmware f
LogsOf(ls, d, f) == {i \in 1..Len(ls) : ls[i].dev = d /\ ls[i].fw = f}

\* C18: after a campaign was created in any of the three modes, its
\* devices_total is the number of its devices, devices_updated and
\* devices_failed are 0, its status is IN_PROGRESS, and every one of its
\* devices has an active target that is not a rollback and is bound to the
\* campaign, and exactly one log for the target firmware, PENDING with
\* attempt_count 0
CreatedCampaignIsSeeded ==
    [][Created(resp') =>
        LET c == campaigns'[resp'.campaign]
        IN /\ c.devices # {}
           /\ c.devices_total = Cardinality(c.devices)
           /\ c.devices_updated = 0
           /\ c.devices_failed = 0
           /\ c.status = "in_progress"
           /\ \A d \in c.devices :
                 /\ ActiveTarget(targets', d)
                 /\ ~targets'[d].is_rollback
                 /\ targets'[d].campaign = resp'.campaign
                 /\ Cardinality(LogsOf(logs', d, c.target_firmware)) = 1
                 /\ \A i \in LogsOf(logs', d, c.target_firmware) :
                       logs'[i].status = "pending" /\ logs'[i].attempts = 0
    ]_vars

\* a second campaign for the firmware of the first has just been created for
\* two devices, one of which had checked against the first
SeededAgain ==
    /\ Created(resp)
    /\ resp.campaign = 2
    /\ campaigns[2].target_firmware = campaigns[1].target_firmware
    /\ Cardinality(campaigns[2].devices) = 2
    /\ \E d \in campaigns[1].devices \cap campaigns[2].devices :
          \E i \in 1..Len(logs) : logs[i].dev = d /\ logs[i].cur \in ReportedVersions

\* the administrators send multi-device requests while a device checks
NextMulti ==
    \/ Tick
    \/ \E ss \in SUBSET RequestSerials \ {{}}, f \in RequestFirmwares :
          TriggerMultiDeviceUpdate(ss, f, 2)
    \/ \E v \in {"v0", "v1"} : OtaCheckKnown("d1", v)

SpecMulti == Init /\ [][NextMulti]_vars

\* C19: a multi-device request for a known firmware in which at least one
\* serial resolves is answered 201, its campaign targets exactly the
\* devices that resolved, the other devices' targets stay as they were and
\* the answer lists exactly the serials that did not resolve; a request in
\* which no serial resolves, or for an unknown firmware, is refused and
\* leaves campaigns, targets and logs as they were
MultiTargetsResolvedOnly ==
    [][\A ss \in SUBSET RequestSerials \ {{}}, f \in RequestFirmwares :
        (resp'.op = "trigger_multi" /\ TriggerMultiDeviceUpdate(ss, f, 2)) =>
            IF f \in Firmwares /\ ss \cap Devices # {}
            THEN /\ resp'.code = 201
                 /\ Len(campaigns') = Len(campaigns) + 1
                 /\ resp'.campaign = Len(campaigns')
                 /\ campaigns'[resp'.campaign].devices = ss \cap Devices
                 /\ campaigns'[resp'.campaign].target_firmware = f
                 /\ \A d \in Devices :
                       IF d \in ss
                       THEN ActiveTarget(targets', d) /\ targets'[d].campaign = resp'.campaign
                       ELSE targets'[d] = targets[d]
                 /\ resp'.missing = ss \ Devices
            ELSE /\ resp'.code # 201
                 /\ campaigns' = campaigns
                 /\ targets' = targets
                 /\ logs' = logs
    ]_vars

\* a request naming two known devices and an unknown serial was answered
\* 201 with the unknown serial reported as missing
PartialMatchCreated ==
    /\ resp.op = "trigger_multi"
    /\ resp.code = 201
    /\ resp.missing = {"d9"}
    /\ campaigns[resp.campaign].devices = {"d1", "d2"}

\* a device checks before and after it is targeted, and the administrators
\* send version-based requests
NextVersionBased ==
    \/ Tick
    \/ TriggerSingleDeviceUpdate("d1", "f1", 2)
    \/ \E v \in ReportedVersions \cup {"unknown"}, f \in RequestFirmwares :
          TriggerVersionBasedUpdate(v, f, 2)
    \/ \E v \in {"v0", "v1"} : OtaCheck("d1", v)

SpecVersionBased == Init /\ [][NextVersionBased]_vars

\* the devices that have a log and whose most recent log (one of them, when
\* several share the latest last_checked_at) reports version v
MayBeOnVersion(ls, v) ==
    {d \in Devices :
        LET mine == {i \in 1..Len(ls) : ls[i].dev = d}
        IN mine # {} /\ \E i \in MostRecent(ls, mine) : ls[i].cur = v}

\* the devices that have a log and whose most recent logs all report v
MustBeOnVersion(ls, v) ==
    {d \in Devices :
        LET mine == {i \in 1..Len(ls) : ls[i].dev = d}
        IN mine # {} /\ \A i \in MostRecent(ls, mine) : ls[i].cur = v}

\* C20: a version-based request for a known firmware targets exactly the
\* devices whose most recent log reports the source version; when there is
\* no such device it is refused and creates nothing
VersionBasedTargetsLatest ==
    [][\A v \in ReportedVersions \cup {"unknown"}, f \in Firmwares :
        (resp'.op = "trigger_version_based" /\ TriggerVersionBasedUpdate(v, f, 2)) =>
            /\ MayBeOnVersion(logs, v) = {} =>
                  /\ resp'.code # 201
                  /\ campaigns' = campaigns
                  /\ targets' = targets
                  /\ logs' = logs
            /\ MustBeOnVersion(logs, v) # {} => resp'.code = 201
            /\ resp'.code = 201 =>
                  /\ MustBeOnVersion(logs, v) \subseteq campaigns'[resp'.campaign].devices
                  /\ campaigns'[resp'.campaign].devices \subseteq MayBeOnVersion(logs, v)
    ]_vars

(* ------------------------------ cancellation ---------------------------- *)

\* C21: cancelling a campaign that is pending or in progress sets it to
\* CANCELLED, removes every target the campaign owns and nothing else, and
\* leaves devices_total, devices_updated and devices_failed as they were; a
\* heartbeat that follows the cancellation does not signal update-available
\* to a device of the campaign unless another campaign targets it
CancelRemovesTargets ==
    [][/\ \A c \in 1..Len(campaigns) :
             (/\ campaigns[c].status \in {"pending", "in_progress"}
              /\ CancelTargetedUpdate(c)) =>
                 /\ resp'.code = 200
                 /\ campaigns'[c] = [campaigns[c] EXCEPT !.status = "cancelled"]
                 /\ \A k \in 1..Len(campaigns) : k # c => campaigns'[k] = campaigns[k]
                 /\ \A d \in Devices :
                       IF targets[d].present /\ targets[d].campaign = c
                       THEN ~ActiveTarget(targets', d)
                       ELSE targets'[d] = targets[d]
                 /\ logs' = logs
       /\ \A d \in Devices :
             (/\ resp.op = "cancel" /\ resp.code = 200
              /\ d \in campaigns[resp.campaign].devices
              /\ ~(targets[d].present /\ targets[d].campaign # resp.campaign)
              /\ resp'.op = "heartbeat" /\ resp'.dev = d) => resp'.updateFirmware # 1
    ]_vars

\* the campaign of a device was cancelled while in progress and the
\* device's next heartbeat carried no firmware signal
CancelledThenQuiet ==
    /\ resp.op = "heartbeat"
    /\ resp.updateFirmware = 0
    /\ ~targets[resp.dev].present
    /\ \E c \in 1..Len(campaigns) :
          /\ campaigns[c].status = "cancelled"
          /\ resp.dev \in campaigns[c].devices
          /\ campaigns[c].devices_updated = 0 /\ campaigns[c].devices_failed = 0

\* C22: cancelling a campaign that is COMPLETED or CANCELLED is refused and
\* cancelling an unknown campaign is answered NotFound; both leave
\* campaigns, targets and logs as they were
CancelRefusedChangesNothing ==
    [][\A c \in 1..(MaxCampaigns + 1) :
        (/\ c \in 1..Len(campaigns) => campaigns[c].status \in {"completed", "cancelled"}
         /\ CancelTargetedUpdate(c)) =>
            /\ resp'.code = IF c \in 1..Len(campaigns) THEN 400 ELSE 404
            /\ campaigns' = campaigns
            /\ targets' = targets
            /\ logs' = logs
    ]_vars

\* the cancellation of a completed campaign has just been refused; the
\* campaign still stands as completed with its device counted
CancelOfCompletedRefused ==
    /\ resp.op = "cancel"
    /\ resp.code = 400
    /\ \E c \in 1..Len(campaigns) :
          campaigns[c].status = "completed" /\ campaigns[c].devices_updated = 1

(* ------------------------- the device's round trip ---------------------- *)

\* C23: when a single-device campaign has been created and the device then
\* reports completion with the target firmware's version, the campaign is
\* COMPLETED and the device's target is inactive; and once the campaign of
\* a device is completed with its target inactive, an OTA check of the
\* device reporting the target version answers up to date (status 0)
RoundTrip ==
    [][\A d \in Devices, f \in Firmwares :
        /\ (/\ resp.op = "trigger_single" /\ resp.code = 201
            /\ campaigns[resp.campaign].devices = {d}
            /\ campaigns[resp.campaign].target_firmware = f
            /\ OtaStatus(d, "completed", Version(f))) =>
               /\ campaigns'[resp.campaign].status = "completed"
               /\ ~ActiveTarget(targets', d)
        /\ \A c \in 1..Len(campaigns) :
              (/\ campaigns[c].devices = {d}
               /\ campaigns[c].target_firmware = f
               /\ campaigns[c].status = "completed"
               /\ targets[d].present /\ targets[d].campaign = c /\ ~targets[d].is_active) =>
                  \A li \in CheckLogChoices(logs, targets, d) :
                      OtaCheckResult(DB, d, Version(f), li).resp.status = 0
    ]_vars

(* ------------------------ the effect of one sweep ----------------------- *)

\* two campaigns, the second of which may retarget the devices of the first
\* to the other firmware; the devices check, time passes and the campaigns
\* are read
NextRetarget ==
    \/ Tick
    \/ \E f \in Firmwares : TriggerSingleDeviceUpdate("d1", f, 2)
    \/ TriggerMultiDeviceUpdate({"d1", "d2"}, "f1", 2)
    \/ \E c \in 1..2 : GetTargetedUpdate(c)
    \/ \E d \in Devices, v \in {"v0", "v1"} : OtaCheckKnown(d, v)
    \/ OtaStatus("d2", "completed", "v1")

SpecRetarget == Init /\ [][NextRetarget]_vars

\* the logs a sweep of campaign c is to fail: those of its target devices and
\* target firmware that are in flight and were last checked before the timeout
SilentLogs(c) ==
    {i \in 1..Len(logs) :
        /\ logs[i].dev \in campaigns[c].devices
        /\ logs[i].fw = campaigns[c].target_firmware
        /\ logs[i].status \in {"checking", "available", "downloading"}
        /\ now - logs[i].last > OTA_UPDATE_TIMEOUT_MINUTES}

CheckCompletesTarget ==
    \A d \in Devices :
        LET f == targets[d].fw
            c == targets[d].campaign
        IN (ActiveTarget(targets, d) /\ c # NoCampaign) =>
              \A li \in CheckLogChoices(logs, targets, d) :
                 LET r == OtaCheckResult(DB, d, Version(f), li)
                 IN /\ r.resp.status = 0
                    /\ \E i \in 1..Len(r.logs) :
                          /\ r.logs[i].dev = d /\ r.logs[i].fw = f
                          /\ r.logs[i].status = "completed"
                    /\ ~ActiveTarget(r.targets, d)
                    /\ r.campaigns[c].devices_updated
                          = campaigns[c].devices_updated + 1
                    /\ \A l2 \in CheckLogChoices(r.logs, r.targets, d) :
                          OtaCheckResult(r, d, Version(f), l2).campaigns[c]
                             = r.campaigns[c]

(* ---------------------- the delivery of the firmware -------------------- *)

\* url_ttl = None
NoTtl == 0

\* getattr(settings, 'AWS_PRESIGNED_URL_EXPIRATION', 300)
AWS_PRESIGNED_URL_EXPIRATION == 300

\* what the URL builder reads besides the firmware row: OTA_CLOUDFRONT_DOMAIN
\* is set, OTA_USE_PRESIGNED_URL, the storage of the file is S3Boto3Storage,
\* AWS_STORAGE_BUCKET_NAME is set, and how the signing goes: it returns a
\* URL, raises BotoCoreError or ClientError, or raises anything else
DeliveryEnvs ==
    [cf_domain : BOOLEAN, use_presigned : BOOLEAN, is_s3 : BOOLEAN,
     bucket : BOOLEAN, signing : {"ok", "boto_error", "error"}]

\* 'url': '' of the answers without a download
NoUrl == [host |-> "none", fw |-> NoFirmware]

\* request.build_absolute_uri(reverse('ota_download', firmware_id))
ProxyUrl(f) == [host |-> "api", fw |-> f]

\* what the URL builder writes to the log when the signing raised: a
\* warning for BotoCoreError and ClientError, a debug line for the rest
SigningLog(env) ==
    IF env.use_presigned /\ env.is_s3 /\ env.bucket /\ env.signing # "ok"
    THEN IF env.signing = "boto_error" THEN "warning" ELSE "debug"
    ELSE "none"

\* a faulty variant: a failed signing fails the URL builder, nothing is left
\* to fall back on
DownloadUrlSigningFatal(f, env) ==
    IF env.cf_domain
    THEN [url |-> [host |-> "cloudfront", fw |-> f],
          url_type |-> "cloudfront", url_ttl |-> NoTtl, logged |-> "info"]
    ELSE IF env.use_presigned /\ env.is_s3 /\ env.bucket
    THEN IF env.signing = "ok"
         THEN [url |-> [host |-> "s3", fw |-> f], url_type |-> "s3_presigned",
               url_ttl |-> AWS_PRESIGNED_URL_EXPIRATION, logged |-> "info"]
         ELSE [url |-> NoUrl, url_type |-> "error", url_ttl |-> NoTtl,
               logged |-> SigningLog(env)]
    ELSE [url |-> ProxyUrl(f), url_type |-> "direct", url_ttl |-> NoTtl,
          logged |-> "none"]

\* a faulty variant: the pre-signed URL is preferred to the CDN
DownloadUrlPresignedFirst(f, env) ==
    IF env.use_presigned /\ env.is_s3 /\ env.bucket /\ env.signing = "ok"
    THEN [url |-> [host |-> "s3", fw |-> f], url_type |-> "s3_presigned",
          url_ttl |-> AWS_PRESIGNED_URL_EXPIRATION, logged |-> "info"]
    ELSE IF env.cf_domain
    THEN [url |-> [host |-> "cloudfront", fw |-> f],
          url_type |-> "cloudfront", url_ttl |-> NoTtl, logged |-> "info"]
    ELSE [url |-> ProxyUrl(f), url_type |-> "direct", url_ttl |-> NoTtl,
          logged |-> SigningLog(env)]

\* download_url, url_type and url_ttl of ota_check for the firmware f:
\* CloudFront, then the pre-signed S3 URL, then the Django proxy; both
\* kinds of signing failure are caught and leave download_url unset
DownloadUrl(f, env) ==
    IF env.cf_domain
    THEN [url |-> [host |-> "cloudfront", fw |-> f],
          url_type |-> "cloudfront", url_ttl |-> NoTtl, logged |-> "info"]
    ELSE IF env.use_presigned /\ env.is_s3 /\ env.bucket /\ env.signing = "ok"
    THEN [url |-> [host |-> "s3", fw |-> f], url_type |-> "s3_presigned",
          url_ttl |-> AWS_PRESIGNED_URL_EXPIRATION, logged |-> "info"]
    ELSE [url |-> ProxyUrl(f), url_type |-> "direct", url_ttl |-> NoTtl,
          logged |-> SigningLog(env)]

\* the body of the answer of ota_check: r is the outcome of the check, f the
\* firmware it offers; logged is what the URL builder wrote to the log
CheckAnswer(r, f, env) ==
    IF r.resp.status = 1
    THEN LET u == DownloadUrl(f, env)
         IN [op |-> "ota_check", dev |-> r.resp.dev, code |-> 200, status |-> 1,
             version |-> r.resp.version, fw |-> f, url |-> u.url,
             fallback_url |-> ProxyUrl(f), url_type |-> u.url_type,
             url_ttl |-> u.url_ttl, logged |-> u.logged]
    ELSE [op |-> "ota_check", dev |-> r.resp.dev, code |-> 200, status |-> 0,
          version |-> r.resp.version, fw |-> NoFirmware, url |-> NoUrl,
          fallback_url |-> NoUrl, url_type |-> "none", url_ttl |-> NoTtl,
          logged |-> "none"]

\* the answer to a serial that is no device's: 404 'Device not found'
DeviceNotFound(op, serial) ==
    [op |-> op, dev |-> serial, code |-> 404, status |-> 0, version |-> "unknown",
     fw |-> NoFirmware, url |-> NoUrl, fallback_url |-> NoUrl, url_type |-> "none",
     url_ttl |-> NoTtl, logged |-> "none", recorded |-> FALSE]

\* commit the outcome r of a device's request and answer the device
CommitResp(r, answer) ==
    /\ campaigns' = r.campaigns
    /\ targets' = r.targets
    /\ logs' = r.logs
    /\ resp' = answer
    /\ UNCHANGED <<now, fwActive, device, configs, pc, local>>

\* latest_firmware of ota_check: the firmware of the active target or the
\* latest active firmware
OtaCheckFirmware(db, d) ==
    IF ActiveTarget(db.targets, d) THEN db.targets[d].fw ELSE LatestActive

\* the answer of ota_check for the log li, under the settings env
OtaCheckAnswer(db, d, cur, li, env) ==
    CheckAnswer(OtaCheckResult(db, d, cur, li), OtaCheckFirmware(db, d), env)

\* a faulty variant: a serial that is not known is answered like a device
\* without history, no update
OtaCheckRequestNoLookup(serial, cur, env) ==
    IF serial \notin Devices
    THEN CommitResp(DB, [DeviceNotFound("ota_check", serial) EXCEPT !.code = 200])
    ELSE \E li \in CheckLogChoices(logs, targets, serial) :
            /\ li # 0 => (logs[li].status = "failed" \/ logs[li].attempts < MaxAttempts)
            /\ CommitResp(OtaCheckResult(DB, serial, cur, li),
                          OtaCheckAnswer(DB, serial, cur, li, env))

\* POST ota_check(device_id) {firmware_version: cur}, with its answer
OtaCheckRequest(serial, cur, env) ==
    IF serial \notin Devices
    THEN CommitResp(DB, DeviceNotFound("ota_check", serial))
    ELSE \E li \in CheckLogChoices(logs, targets, serial) :
            /\ li # 0 => (logs[li].status = "failed" \/ logs[li].attempts < MaxAttempts)
            /\ CommitResp(OtaCheckResult(DB, serial, cur, li),
                          OtaCheckAnswer(DB, serial, cur, li, env))

\* POST ota_status(device_id) {status: st, firmware_version: ver}, with its
\* answer
OtaStatusRequest(serial, st, ver) ==
    IF serial \notin Devices
    THEN CommitResp(DB, DeviceNotFound("ota_status", serial))
    ELSE \E li \in StatusLogChoices(logs, serial) :
            LET r == OtaStatusResult(DB, serial, st, ver, li)
            IN CommitResp(r, r.resp)

\* the statuses a report may carry: the two the protocol names, one of them
\* in capitals, a status of the log that is no result, and none
StatusInputs == {"completed", "failed", "COMPLETED", "downloading", ""}

\* the settings as they default: no CDN domain, no pre-signing, the file on
\* the local file system
DefaultSettings ==
    [cf_domain |-> FALSE, use_presigned |-> FALSE, is_s3 |-> FALSE,
     bucket |-> FALSE, signing |-> "ok"]

\* one device and one firmware that is activated, deactivated and targeted;
\* the device checks under every setting and reports, and so does a serial
\* that is no device's
NextDelivery ==
    \/ \E a \in BOOLEAN : UpdateFirmwareVersion("f1", a)
    \/ TriggerSingleDeviceUpdate("d1", "f1", 1)
    \/ \E v \in {"v0", "v1"}, env \in DeliveryEnvs : OtaCheckRequest("d1", v, env)
    \/ OtaCheckRequest("d9", "v0", DefaultSettings)
    \/ \E s \in {"d1", "d9"}, st \in StatusInputs : OtaStatusRequest(s, st, "v1")

SpecDelivery == Init /\ [][NextDelivery]_vars

\* the artifact is held in the object store: the storage of the file is the
\* S3 backend and its bucket is configured
InObjectStore(env) == env.is_s3 /\ env.bucket

\* C26: the URL of an answer that offers an update is the CDN URL when a CDN
\* domain is configured; otherwise the pre-signed object-store URL when
\* pre-signing is enabled, the artifact is in the object store and the
\* signing succeeds; otherwise the URL of the streaming proxy.  A ttl comes
\* with the pre-signed URL only, and the fallback URL is always the URL of
\* the streaming proxy
DeliveryTier ==
    \A d \in Devices, v \in ReportedVersions, env \in DeliveryEnvs :
        \A li \in CheckLogChoices(logs, targets, d) :
            LET a == OtaCheckAnswer(DB, d, v, li, env)
            IN a.status = 1 =>
                 /\ a.fw \in Firmwares
                 /\ a.url.fw = a.fw
                 /\ a.url.host =
                       IF env.cf_domain THEN "cloudfront"
                       ELSE IF /\ env.use_presigned /\ InObjectStore(env)
                               /\ env.signing = "ok"
                       THEN "s3"
                       ELSE "api"
                 /\ (a.url_ttl # NoTtl) <=> (a.url.host = "s3")
                 /\ a.fallback_url = [host |-> "api", fw |-> a.fw]

\* an update was offered on a pre-signed URL, with its ttl and the fallback
PresignedOffered ==
    /\ resp.op = "ota_check" /\ resp.status = 1
    /\ resp.url.host = "s3" /\ resp.url_ttl = AWS_PRESIGNED_URL_EXPIRATION
    /\ resp.fallback_url.host = "api"

\* C27: when the signing of the pre-signed URL fails, a check that finds an
\* update still answers 200 and update available (status 1) with the URL of
\* the streaming proxy, and leaves the log of the device AVAILABLE
SigningFailureFallsBack ==
    \A d \in Devices, v \in ReportedVersions, env \in DeliveryEnvs :
        \A li \in CheckLogChoices(logs, targets, d) :
            LET r == OtaCheckResult(DB, d, v, li)
                a == OtaCheckAnswer(DB, d, v, li, env)
            IN (/\ r.resp.status = 1
                /\ ~env.cf_domain /\ env.use_presigned /\ InObjectStore(env)
                /\ env.signing # "ok") =>
                  /\ a.code = 200 /\ a.status = 1
                  /\ a.url = [host |-> "api", fw |-> a.fw]
                  /\ a.fallback_url = a.url
                  /\ \E i \in 1..Len(r.logs) :
                        /\ r.logs[i].dev = d /\ r.logs[i].fw = a.fw
                        /\ r.logs[i].status = "available"

\* the signing failed and the update was offered on the proxy
OfferedAfterSigningFailure ==
    /\ resp.op = "ota_check" /\ resp.status = 1
    /\ resp.logged \in {"warning", "debug"}
    /\ resp.url.host = "api"
    /\ \E i \in 1..Len(logs) :
          logs[i].dev = resp.dev /\ logs[i].fw = resp.fw /\ logs[i].status = "available"

(* --------------------------- the streaming proxy ------------------------ *)

\* the largest artifact of the model, in bytes, besides the artifact of
\* 1000 bytes that is read from 100 to 199
MaxSize == 3

\* text is a sequence of characters; the prefix "bytes=" is one character
DigitChars == <<"0", "1", "2", "3", "4", "5", "6", "7", "8", "9">>

DigitVal(c) == CHOOSE k \in 0..9 : DigitChars[k + 1] = c

\* str(n) of the f-strings
RECURSIVE Str(_)
Str(n) == IF n < 10 THEN <<DigitChars[n + 1]>>
          ELSE Str(n \div 10) \o <<DigitChars[(n % 10) + 1]>>

\* int(s) succeeds: s is a string of digits (a sign does not survive the
\* split on '-')
IsInt(s) == s # <<>> /\ \A i \in 1..Len(s) : \E k \in 1..10 : DigitChars[k] = s[i]

\* int(s)
RECURSIVE IntOf(_)
IntOf(s) ==
    IF s = <<>> THEN 0
    ELSE IntOf(SubSeq(s, 1, Len(s) - 1)) * 10 + DigitVal(s[Len(s)])

\* range_header.replace('bytes=', '')
StripUnit(s) == SelectSeq(s, LAMBDA c : c # "bytes=")

\* range_spec.split('-')
RECURSIVE SplitDash(_)
SplitDash(s) ==
    IF s = <<>> THEN << <<>> >>
    ELSE LET rest == SplitDash(Tail(s))
         IN IF Head(s) = "-"
            THEN << <<>> >> \o rest
            ELSE << <<Head(s)>> \o rest[1] >> \o Tail(rest)

\* the artifact of size S: the byte at offset k is written k
\* f.seek(start); f.read(n): the bytes from start on, n of them at most, all
\* that are left when n is negative
FileRead(S, start, n) ==
    LET stop == IF n < 0 THEN S ELSE IF start + n < S THEN start + n ELSE S
    IN [k \in 1..(IF stop > start THEN stop - start ELSE 0) |-> start + k - 1]

\* FileResponse(firmware.file.open('rb')) with Content-Length = file_size
FullFile(S) ==
    [op |-> "ota_download", code |-> 200, content_range |-> <<>>,
     content_length |-> S, body |-> FileRead(S, 0, S), accept_ranges |-> "bytes"]

\* a faulty variant: the end of the range is taken as exclusive
RangeResponseExclusiveEnd(S, header) ==
    IF header = <<>> THEN FullFile(S)
    ELSE LET parts == SplitDash(StripUnit(header))
         IN IF \/ Len(parts) # 2
               \/ ~IsInt(parts[1])
               \/ parts[2] # <<>> /\ ~IsInt(parts[2])
            THEN FullFile(S)
            ELSE LET range_start == IntOf(parts[1])
                     asked == IF parts[2] = <<>> THEN S - 1 ELSE IntOf(parts[2])
                     range_end == IF asked < S - 1 THEN asked ELSE S - 1
                     chunk_size == range_end - range_start
                 IN [op |-> "ota_download", code |-> 206,
                     content_range |-> <<"bytes ">> \o Str(range_start) \o <<"-">>
                                          \o Str(range_end) \o <<"/">> \o Str(S),
                     content_length |-> chunk_size,
                     body |-> FileRead(S, range_start, chunk_size),
                     accept_ranges |-> "bytes"]

\* the answer of ota_download for an artifact of size S and the Range header
\* given (<<>> when there is none): the range is parsed, its end is clamped
\* to the last byte, and a header that does not parse gets the whole file
RangeResponse(S, header) ==
    IF header = <<>> THEN FullFile(S)
    ELSE LET parts == SplitDash(StripUnit(header))
         IN IF \/ Len(parts) # 2
               \/ ~IsInt(parts[1])
               \/ parts[2] # <<>> /\ ~IsInt(parts[2])
            THEN FullFile(S)
            ELSE LET range_start == IntOf(parts[1])
                     asked == IF parts[2] = <<>> THEN S - 1 ELSE IntOf(parts[2])
                     range_end == IF asked < S - 1 THEN asked ELSE S - 1
                     chunk_size == range_end - range_start + 1
                 IN [op |-> "ota_download", code |-> 206,
                     content_range |-> <<"bytes ">> \o Str(range_start) \o <<"-">>
                                          \o Str(range_end) \o <<"/">> \o Str(S),
                     content_length |-> chunk_size,
                     body |-> FileRead(S, range_start, chunk_size),
                     accept_ranges |-> "bytes"]

\* the header 'bytes=a-b'
RangeOf(a, b) == <<"bytes=">> \o Str(a) \o <<"-">> \o Str(b)

\* the Range headers a device may send for offsets up to n: none, first-last,
\* first-, -suffix, and one that names no number
RangeHeaders(n) ==
    {<<>>, <<"bytes=", "x">>}
        \cup {RangeOf(a, b) : a, b \in 0..n}
        \cup {<<"bytes=">> \o Str(a) \o <<"-">> : a \in 0..n}
        \cup {<<"bytes=", "-">> \o Str(b) : b \in 0..n}

\* GET ota_download(firmware_id)?device=serial with the Range header given,
\* for a firmware row of size S: the logs of (firmware, device) become
\* DOWNLOADING and the file, or the range of it, is returned
OtaDownloadRequest(f, serial, S, header) ==
    /\ logs' = [i \in 1..Len(logs) |->
                  IF logs[i].fw = f /\ logs[i].dev = serial
                  THEN [logs[i] EXCEPT !.status = "downloading"]
                  ELSE logs[i]]
    /\ resp' = RangeResponse(S, header)
    /\ UNCHANGED <<now, fwActive, campaigns, targets, device, configs, pc, local>>

\* a device is targeted, checks and downloads the artifact, whole or in
\* ranges
NextDownload ==
    \/ TriggerSingleDeviceUpdate("d1", "f1", 1)
    \/ \E v \in {"v0", "v1"} : OtaCheckKnown("d1", v)
    \/ \E S \in 1..MaxSize, h \in RangeHeaders(MaxSize) :
          OtaDownloadRequest("f1", "d1", S, h)
    \/ OtaDownloadRequest("f1", "d1", 1000, RangeOf(100, 199))

SpecDownload == Init /\ [][NextDownload]_vars

\* the last byte served of a range that ends at b, of an artifact of size S
LastServed(b, S) == IF b < S - 1 THEN b ELSE S - 1

\* C28: for an artifact of size S and a header 'bytes=a-b' with
\* 0 <= a <= b and a < S the answer is 206 with Content-Range
\* 'bytes a-e/S', Content-Length e - a + 1 and the bytes a..e as body, where
\* e = min(b, S - 1); without a Range header the answer is 200 with all S
\* bytes and Accept-Ranges: bytes.  So is every answer a download was given,
\* for the sizes up to MaxSize and for bytes=100-199 of 1000 bytes
RangeArithmetic ==
    resp.op = "ota_download" =>
        \A S \in 1..MaxSize \cup {1000} :
            /\ \A a, b \in 0..MaxSize \cup {100, 199} :
                  (a <= b /\ a < S /\ resp = RangeResponse(S, RangeOf(a, b))) =>
                     LET e == LastServed(b, S)
                     IN /\ resp.code = 206
                        /\ resp.content_range =
                              <<"bytes ">> \o Str(a) \o <<"-">> \o Str(e)
                                  \o <<"/">> \o Str(S)
                        /\ resp.content_length = e - a + 1
                        /\ Len(resp.body) = e - a + 1
                        /\ \A k \in 1..Len(resp.body) : resp.body[k] = a + k - 1
            /\ resp = RangeResponse(S, <<>>) =>
                  /\ resp.code = 200
                  /\ resp.content_length = S
                  /\ resp.body = [k \in 1..S |-> k - 1]
                  /\ resp.accept_ranges = "bytes"

\* the worked example was served: bytes 100-199 of 1000
ExampleRangeServed ==
    /\ resp.op = "ota_download" /\ resp.code = 206
    /\ resp.content_length = 100
    /\ resp.content_range =
          <<"bytes ", "1", "0", "0", "-", "1", "9", "9", "/", "1", "0", "0", "0">>
    /\ Len(resp.body) = 100 /\ resp.body[1] = 100 /\ resp.body[100] = 199

(* ----------------------- requests that are refused ---------------------- *)

\* C29 (as stated): a report whose status is neither 'completed' nor
\* 'failed' is refused with an error, a report or a check for a serial that
\* is no device's is answered 404, and neither changes a log, a target or a
\* campaign
BadRequestRefused ==
    [][/\ resp'.op = "ota_status" =>
             \A s \in RequestSerials, st \in StatusInputs :
                (/\ s \notin Devices \/ st \notin {"completed", "failed"}
                 /\ OtaStatusRequest(s, st, "v1")) =>
                   /\ resp'.code = IF s \notin Devices THEN 404 ELSE 400
                   /\ UNCHANGED <<campaigns, targets, logs>>
       /\ resp'.op = "ota_check" =>
             \A s \in RequestSerials \ Devices, v \in ReportedVersions :
                OtaCheckRequest(s, v, DefaultSettings) =>
                   /\ resp'.code = 404
                   /\ UNCHANGED <<campaigns, targets, logs>>
    ]_vars

\* C29 (amended): a report whose status, letter case aside, is neither
\* 'completed' nor 'failed' is refused with an error, a report or a check
\* for a serial that is no device's is answered 404, and neither changes a
\* log, a target or a campaign
BadRequestRefusedAnyCase ==
    [][/\ resp'.op = "ota_status" =>
             \A s \in RequestSerials, st \in StatusInputs :
                (/\ s \notin Devices \/ Lower(st) \notin {"completed", "failed"}
                 /\ OtaStatusRequest(s, st, "v1")) =>
                   /\ resp'.code = IF s \notin Devices THEN 404 ELSE 400
                   /\ UNCHANGED <<campaigns, targets, logs>>
       /\ resp'.op = "ota_check" =>
             \A s \in RequestSerials \ Devices, v \in ReportedVersions :
                OtaCheckRequest(s, v, DefaultSettings) =>
                   /\ resp'.code = 404
                   /\ UNCHANGED <<campaigns, targets, logs>>
    ]_vars

\* a report was refused for its status while a log of the device was in
\* flight and its target active
ReportRefused ==
    /\ resp.op = "ota_status" /\ resp.code = 400
    /\ ActiveTarget(targets, resp.dev)
    /\ \E i \in 1..Len(logs) : logs[i].dev = resp.dev /\ logs[i].status \in InFlight

(* ------------------------ the offer without a target -------------------- *)

\* two firmware rows are activated, deactivated and targeted at a device
\* that checks and reports
NextOffer ==
    \/ \E f \in Firmwares, a \in BOOLEAN : UpdateFirmwareVersion(f, a)
    \/ \E f \in Firmwares : TriggerSingleDeviceUpdate("d1", f, 1)
    \/ \E v \in ReportedVersions : OtaCheckRequest("d1", v, DefaultSettings)
    \/ \E st \in ReportStatuses : OtaStatusRequest("d1", st, "v1")

SpecOffer == Init /\ [][NextOffer]_vars

\* C30: a check of a device without an active target offers an update only
\* of a firmware that is active, that no active firmware was created after,
\* and whose version differs from the version the device reports; with no
\* active firmware it answers no update; and no check offers an inactive
\* firmware to a device that has no active target for that firmware
OffersLatestActiveOnly ==
    \A d \in Devices, v \in ReportedVersions :
        \A li \in CheckLogChoices(logs, targets, d) :
            LET a == OtaCheckAnswer(DB, d, v, li, DefaultSettings)
            IN /\ (~ActiveTarget(targets, d) /\ a.status = 1) =>
                     /\ a.fw \in fwActive
                     /\ \A g \in fwActive : CreatedRank(g) <= CreatedRank(a.fw)
                     /\ v # Version(a.fw)
                     /\ a.version = Version(a.fw)
               /\ (~ActiveTarget(targets, d) /\ fwActive = {}) => a.status = 0
               /\ (a.status = 1 /\ a.fw \notin fwActive) =>
                     ActiveTarget(targets, d) /\ targets[d].fw = a.fw

\* both firmware rows are active and a device without an active target was
\* offered the later one
LaterOneOffered ==
    /\ resp.op = "ota_check" /\ resp.status = 1
    /\ fwActive = Firmwares
    /\ ~ActiveTarget(targets, resp.dev)
    /\ resp.fw = "f2"

(* ------------------------- terminal campaigns --------------------------- *)

\* C31: a COMPLETED campaign has devices_updated = devices_total and
\* devices_failed = 0, and a FAILED campaign has devices_failed >= 1
TerminalCountersAgree ==
    \A c \in 1..Len(campaigns) :
        /\ campaigns[c].status = "completed" =>
              /\ campaigns[c].devices_updated = campaigns[c].devices_total
              /\ campaigns[c].devices_failed = 0
        /\ campaigns[c].status = "failed" => campaigns[c].devices_failed >= 1

\* the devices of campaign c that have not settled: their target is bound
\* to c and still active
OpenDevices(tg, c) ==
    {d \in campaigns[c].devices :
        tg[d].present /\ tg[d].campaign = c /\ tg[d].is_active}

\* devices_updated + devices_failed
Counted(row) == row.devices_updated + row.devices_failed

\* C32: every step that raises devices_updated + devices_failed of a
\* campaign raises it by no more than the number of devices of the campaign
\* that were unsettled before the step and are settled after it, so that a
\* device is counted once at most, whatever counts it: a report, a check, or
\* a sweep after a download
CountedOncePerDevice ==
    [][\A c \in 1..Len(campaigns) :
          Counted(campaigns'[c]) - Counted(campaigns[c])
             <= Cardinality(OpenDevices(targets, c) \ OpenDevices(targets', c))
    ]_vars

(* ------------------------- a superseded campaign ------------------------ *)

\* every device of campaign c has been retargeted by a newer campaign
Superseded(c) ==
    \A d \in campaigns[c].devices : targets[d].present /\ targets[d].campaign > c

\* C33: once the devices of an in-progress campaign A have been retargeted
\* to a newer campaign, no report, check or sweep changes A's counters or
\* status, and a sweep of A fails no log: the logs of its devices belong to
\* the newer campaign's attempt
SupersededCampaignUntouched ==
    [][\A c \in 1..Len(campaigns) :
          (campaigns[c].status = "in_progress" /\ Superseded(c)) =>
             /\ campaigns'[c] = campaigns[c]
             /\ GetTargetedUpdate(c) => logs' = logs
    ]_vars

(* ---------------------- cancellation among requests --------------------- *)

\* two workers serve the sweeps and the result reports of one campaign for
\* two devices, which an administrator may cancel at any moment
NextCancelConc ==
    \/ AllIdle /\ Tick
    \/ AllIdle /\ TriggerMultiDeviceUpdate({"d1", "d2"}, "f1", 1)
    \/ \E d \in {"d1", "d2"} : AllIdle /\ OtaCheckKnown(d, "v0")
    \/ CancelTargetedUpdate(1)
    \/ \E p \in Procs : SweepBegin(p, 1)
    \/ \E p \in Procs : SweepFinish(p)
    \/ \E p \in Procs, d \in {"d1", "d2"}, st \in ReportStatuses : StatusBegin(p, d, st, "v1")
    \/ \E p \in Procs : StatusFinish(p)

SpecCancelConc == Init /\ [][NextCancelConc]_vars

\* C34: the status of a campaign that is COMPLETED or CANCELLED does not
\* change in any step, the writes of requests that read the campaign
\* earlier included
TerminalStatusSticks ==
    [][\A c \in 1..Len(campaigns) :
          campaigns[c].status \in {"completed", "cancelled"} =>
             campaigns'[c].status = campaigns[c].status
    ]_vars

(* -------------------- the heartbeat and the OTA check ------------------- *)

\* a device is targeted and targeted again, checks for updates and sends
\* heartbeats, and the campaigns are read
NextAgree ==
    \/ Tick
    \/ TriggerSingleDeviceUpdate("d1", "f1", 2)
    \/ \E c \in 1..2 : GetTargetedUpdate(c)
    \/ \E v \in {"v0", "v1"} : OtaCheckKnown("d1", v)
    \/ Heartbeat("d1", NoConfig)

SpecAgree == Init /\ [][NextAgree]_vars

\* C35: in every state where a heartbeat of a device signals update-available
\* (1), an OTA check of that device reporting a firmware other than its
\* target's is answered with status 1 for the target firmware
HeartbeatAndCheckAgree ==
    \A d \in Devices, cur \in ReportedVersions :
        (/\ UpdateFirmwareNeeded(device[d], targets[d]) = 1
         /\ cur # Version(targets[d].fw)) =>
            \A li \in CheckLogChoices(logs, targets, d) :
                /\ OtaCheckResult(DB, d, cur, li).resp.status = 1
                /\ OtaCheckResult(DB, d, cur, li).resp.version = Version(targets[d].fw)

(* ------------------------ a check on a failed log ----------------------- *)

\* C36: an OTA check that resolves to a FAILED log answers status 0 with an
\* empty URL under every delivery setting, and leaves the logs (the FAILED
\* log's status, attempt_count, last_checked_at and current_firmware
\* included), the targets and the campaigns as they were
FailedLogCheckIsInert ==
    \A d \in Devices, cur \in ReportedVersions :
        \A li \in CheckLogChoices(logs, targets, d) :
            (li # 0 /\ logs[li].status = "failed") =>
                /\ OtaCheckResult(DB, d, cur, li).logs = logs
                /\ OtaCheckResult(DB, d, cur, li).targets = targets
                /\ OtaCheckResult(DB, d, cur, li).campaigns = campaigns
                /\ \A env \in DeliveryEnvs :
                      /\ OtaCheckAnswer(DB, d, cur, li, env).status = 0
                      /\ OtaCheckAnswer(DB, d, cur, li, env).url = NoUrl

\* a device whose log is FAILED has just been answered no update
FailedLogChecked ==
    /\ resp.op = "ota_check"
    /\ resp.dev \in Devices
    /\ resp.code = 200 /\ resp.status = 0 /\ resp.url = NoUrl
    /\ \E li \in CheckLogChoices(logs, targets, resp.dev) :
          li # 0 /\ logs[li].status = "failed"

(* ------------------- a report without an update in flight --------------- *)

NothingInFlight(d) ==
    \A i \in 1..Len(logs) : logs[i].dev = d => logs[i].status \notin InFlight

\* C37: a result report for a device none of whose logs is CHECKING,
\* AVAILABLE or DOWNLOADING changes no log, no target and no campaign,
\* whatever status it reports
IdleReportChangesNothing ==
    \A d \in Devices, st \in StatusInputs :
        NothingInFlight(d) =>
            \A li \in StatusLogChoices(logs, d) :
                /\ OtaStatusResult(DB, d, st, "v1", li).logs = logs
                /\ OtaStatusResult(DB, d, st, "v1", li).targets = targets
                /\ OtaStatusResult(DB, d, st, "v1", li).campaigns = campaigns
                /\ OtaStatusResult(DB, d, st, "v1", li).resp.code \in {200, 400}

\* a targeted device whose only log is the seeded PENDING one has reported
\* a result and was answered 200 without anything being recorded
IdleReportAnswered ==
    /\ resp.op = "ota_status"
    /\ resp.dev \in Devices
    /\ resp.code = 200
    /\ NothingInFlight(resp.dev)
    /\ ActiveTarget(targets, resp.dev)
    /\ \E i \in 1..Len(logs) : logs[i].dev = resp.dev /\ logs[i].status = "pending"

(* ------------------------ configuration convergence --------------------- *)

\* the stored row of d says: assigned configuration c exists, the flag is
\* down and the acknowledged version is the configuration's version
Converged(d, c) ==
    /\ device[d].config_version = c
    /\ c \in DOMAIN configs
    /\ ~device[d].pending_config_update
    /\ device[d].config_ack_ver = configs[c]

\* a step that changes the content of a configuration or the assignment of d
ContentOrAssignmentChange(d) ==
    \/ \E x \in ConfigIds : UpdatePreset(x) \/ EditSlaves(x) \/ DeletePreset(x)
    \/ device'[d].config_version # device[d].config_version

\* C38: the acknowledgment of the current version of the assigned
\* configuration, which ends the device's heartbeat, download and
\* acknowledgment after a content change, leaves the device converged; a
\* heartbeat of a converged device reporting the assigned id returns
\* updateConfig = 0; and the device stays converged in every step that
\* changes neither the content nor the assignment and acknowledges no other
\* version
ConfigConverges ==
    [][\A d \in Devices, c \in ConfigIds :
          /\ (/\ device[d].config_version = c
              /\ c \in DOMAIN configs
              /\ ConfigAck(d, configs[c])) => Converged(d, c)'
          /\ (Converged(d, c) /\ Heartbeat(d, c)) =>
                 /\ resp'.updateConfig = 0
                 /\ Converged(d, c)'
          /\ (/\ Converged(d, c)
              /\ ~ContentOrAssignmentChange(d)
              /\ device'[d].config_ack_ver = device[d].config_ack_ver) =>
                 /\ Converged(d, c)'
                 /\ UpdateConfigNeeded(device'[d], configs', c) = 0
    ]_vars

\* the configuration was edited to version 2, downloaded and acknowledged at
\* version 2, and a heartbeat reporting it was answered updateConfig = 0
ConvergedAfterEdit ==
    /\ resp.op = "heartbeat"
    /\ resp.configId \in ConfigIds
    /\ resp.updateConfig = 0
    /\ Converged(resp.dev, resp.configId)
    /\ configs[resp.configId] = 2
    /\ device[resp.dev].config_downloaded
    /\ device[resp.dev].config_acked

====
